---------------------------- MODULE Spec2Model ----------------------------
(***************************************************************************)
(* A model of the email-graph analysis engine: the DirectedEmailGraph      *)
(* (a networkx DiGraph with cumulative edge weights), the Dijkstra         *)
(* shortest-path queries, the undirected projection, the Kruskal MST with  *)
(* its star-topology detector, the betweenness centrality and the          *)
(* SpamScorer / SpamClassifier pipeline.                                   *)
(*                                                                         *)
(* A graph is a record                                                     *)
(*   nodes  : the nodes in insertion order           (DiGraph._node)       *)
(*   succ   : node -> its successors, in insertion order (DiGraph._succ)   *)
(*   pred   : node -> its predecessors, in insertion order (DiGraph._pred) *)
(*   weight : <<u, v>> -> the 'weight' attribute of edge u -> v            *)
(* The iteration orders are kept because the library's results (the        *)
(* undirected projection's weights, Kruskal's and Dijkstra's tie-breaks)   *)
(* depend on them.                                                         *)
(***************************************************************************)
EXTENDS Integers, Sequences, FiniteSets, TLC

VARIABLES
    graph,    \* the DirectedEmailGraph under analysis
    sent,     \* history: <<sender, recipient>> -> sum of the weights of all add_email calls
    ncalls,   \* history: <<sender, recipient>> -> number of add_email calls
    calls,    \* history: total number of add_email calls
    res,      \* the last operation and what it returned
    scorer,   \* the SpamScorer object, once constructed (its graph is `graph`)
    baseline, \* history: what calculate_all_scores returned right after construction
    pending,  \* the emails add_emails_batch has still to add (the ring scenario)
    classifier, \* the SpamClassifier object, once constructed
    other     \* a second DirectedEmailGraph, once copy() or get_subgraph() returned it

vars == <<graph, sent, ncalls, calls, res, scorer, baseline, pending, classifier, other>>

(***************************************************************************)
(* Bounds of the model.                                                    *)
(***************************************************************************)
MaxCalls == 3          \* add_email calls in one run of the small model
MaxBatch == 2          \* length of the lists handed to add_emails_batch
MaxSeed == 1           \* the ring scenario is run for the seeds 0..MaxSeed
MaxOut == 21           \* recipients of the hub in the hub scenario: 0..MaxOut
MaxIn == 2             \* senders to the hub in the hub scenario: 0..MaxIn
MaxGiven == 2          \* get_subgraph is called with lists of 0..MaxGiven addresses
MaxRecords == 3        \* records of the list handed to add_emails_batch as a whole

\* MSTAnalyzer.detect_star_topology's default threshold 0.5, in hundredths
STAR_THRESHOLD_PCT == 50

Node == {"a", "b", "c"}        \* addresses used by the small model
Weights == {-4, -2, 1, 3}      \* weight arguments of add_email

(***************************************************************************)
(* Finite-map helpers (Python dicts).                                      *)
(***************************************************************************)
EmptyMap == [x \in {} |-> 0]

\* d[k] = v (the left operand of @@ wins; TLC stores the result as a table)
Put(f, k, v) == (k :> v) @@ f

\* a dict built by a comprehension, stored as a table of its entries
Dict(f) == f @@ EmptyMap

Get(f, k, default) == IF k \in DOMAIN f THEN f[k] ELSE default

Range(s) == {s[i] : i \in DOMAIN s}

(***************************************************************************)
(* DirectedEmailGraph                                                      *)
(***************************************************************************)
EmptyGraph == [nodes |-> <<>>, succ |-> EmptyMap, pred |-> EmptyMap, weight |-> EmptyMap]

\* no second graph object yet
NoGraph == [exists |-> FALSE]

HasNode(g, n) == n \in DOMAIN g.succ

has_edge(g, u, v) == <<u, v>> \in DOMAIN g.weight

\* DiGraph.add_edge registers an endpoint it has not seen, in argument order
AddNode(g, n) ==
    IF HasNode(g, n) THEN g
    ELSE [g EXCEPT !.nodes = Append(@, n), !.succ = Put(@, n, <<>>),
                   !.pred = Put(@, n, <<>>)]

\* DiGraph.add_edge(u, v, weight=w): a new edge is appended to u's successors
\* and to v's predecessors;
\* on an existing edge the attribute is overwritten
add_edge(g, u, v, w) ==
    LET g1 == AddNode(AddNode(g, u), v)
    IN  IF has_edge(g1, u, v)
        THEN [g1 EXCEPT !.weight = Put(@, <<u, v>>, w)]
        ELSE [g1 EXCEPT !.succ = Put(@, u, Append(g1.succ[u], v)),
                        !.pred = Put(@, v, Append(g1.pred[v], u)),
                        !.weight = Put(@, <<u, v>>, w)]

\* a mutant of add_email: a repeated pair replaces the stored weight
add_email_replace(g, sender, recipient, w) == add_edge(g, sender, recipient, w)

\* DirectedEmailGraph.add_email: no check of the weight, nothing raised
add_email(g, sender, recipient, w) ==
    IF has_edge(g, sender, recipient)
    THEN [g EXCEPT !.weight = Put(@, <<sender, recipient>>,
                                   g.weight[<<sender, recipient>>] + w)]
    ELSE add_edge(g, sender, recipient, w)

\* (a variant of add_emails_batch in which the last record of a pair wins)
RECURSIVE add_emails_batch_replace(_, _)
add_emails_batch_replace(g, emails) ==
    IF emails = <<>> THEN g
    ELSE add_emails_batch_replace(
             add_email_replace(g, emails[1][1], emails[1][2], emails[1][3]),
             Tail(emails))

\* DirectedEmailGraph.add_emails_batch: add_email for each triple, in order
RECURSIVE add_emails_batch(_, _)
add_emails_batch(g, emails) ==
    IF emails = <<>> THEN g
    ELSE add_emails_batch(add_email(g, emails[1][1], emails[1][2], emails[1][3]),
                          Tail(emails))

get_nodes(g) == g.nodes

get_edge_weight(g, u, v) == IF has_edge(g, u, v) THEN g.weight[<<u, v>>] ELSE "None"

\* the edges in the order DiGraph.edges() yields them: per node lo..hi of the
\* node order, its successors in order
RECURSIVE EdgesFrom(_, _, _)
EdgesFrom(g, lo, hi) ==
    IF lo > hi THEN <<>>
    ELSE IF lo = hi
    THEN LET u == g.nodes[lo]
         IN  [j \in 1..Len(g.succ[u]) |-> <<u, g.succ[u][j]>>]
    ELSE EdgesFrom(g, lo, (lo + hi) \div 2) \o EdgesFrom(g, (lo + hi) \div 2 + 1, hi)

get_edges(g) == EdgesFrom(g, 1, Len(g.nodes))

\* add_edges_from: the edges i.. of the list are added in order, each with the
\* weight its attribute dictionary holds in g
RECURSIVE AddEdgesFrom(_, _, _, _)
AddEdgesFrom(new, g, edges, i) ==
    IF i > Len(edges) THEN new
    ELSE AddEdgesFrom(add_edge(new, edges[i][1], edges[i][2], g.weight[edges[i]]),
                      g, edges, i + 1)

\* the node-induced view g.subgraph(keep): the nodes of g that are in keep in
\* the node order of g, and the edges of g between two of them
ViewNodes(g, keep) == SelectSeq(g.nodes, LAMBDA n : n \in keep)

ViewEdges(g, keep) == SelectSeq(get_edges(g), LAMBDA e : e[1] \in keep /\ e[2] \in keep)

\* the graph DiGraph.copy() builds from a graph or a view: its nodes, then its
\* edges
CopiedGraph(g, keep) ==
    LET nodes == ViewNodes(g, keep)
        start == [nodes |-> nodes,
                  succ |-> Dict([n \in Range(nodes) |-> <<>>]),
                  pred |-> Dict([n \in Range(nodes) |-> <<>>]),
                  weight |-> EmptyMap]
    IN  AddEdgesFrom(start, g, ViewEdges(g, keep), 1)

\* (a variant of nx_copy that hands the attribute dictionary of every edge to
\* the new graph instead of a copy of it)
nx_copy_shallow(g, keep) ==
    [exists |-> TRUE, graph |-> CopiedGraph(g, keep), shared |-> Range(ViewEdges(g, keep))]

\* DiGraph.copy(): add_edges_from((u, v, datadict.copy()) ...), so no edge of
\* the new graph holds an attribute dictionary of the source: shared is the
\* set of edges whose dictionary both graphs hold
nx_copy(g, keep) ==
    [exists |-> TRUE, graph |-> CopiedGraph(g, keep), shared |-> {}]

\* DirectedEmailGraph.copy: new_graph.graph = self.graph.copy()
copy(g) == nx_copy(g, Range(g.nodes))

\* DirectedEmailGraph.get_subgraph: subgraph.graph = self.graph.subgraph(nodes).copy()
get_subgraph(g, nodes) == nx_copy(g, Range(nodes))

\* add_email on a graph writes `self.graph[sender][recipient]['weight']` into
\* the attribute dictionary of an existing edge: a second graph that holds the
\* same dictionary reads the new weight
SeenThrough(peer, shared, sender, recipient, w) ==
    IF <<sender, recipient>> \in shared
    THEN [peer EXCEPT !.weight = Put(@, <<sender, recipient>>, w)]
    ELSE peer

\* in_degree / out_degree of every node: distinct predecessors / successors
get_out_degree(g) == [n \in DOMAIN g.succ |-> Len(g.succ[n])]

get_in_degree(g) ==
    [n \in DOMAIN g.succ |-> Cardinality({u \in DOMAIN g.succ : has_edge(g, u, n)})]

get_number_of_nodes(g) == Len(g.nodes)

\* dict(self.graph.in_degree([node])) / out_degree([node]): the degree view
\* over an nbunch skips the nodes that are not in the graph
nbunch_degrees(degrees, nbunch) ==
    [n \in nbunch \cap DOMAIN degrees |-> degrees[n]]

\* get_in_degree(node) with a node given: dict(...)[node]
get_in_degree_node(g, node) ==
    LET d == nbunch_degrees(get_in_degree(g), {node})
    IN  IF node \in DOMAIN d THEN [kind |-> "Return", value |-> d[node]]
        ELSE [kind |-> "Raise", exc |-> "KeyError"]

\* get_out_degree(node) with a node given
get_out_degree_node(g, node) ==
    LET d == nbunch_degrees(get_out_degree(g), {node})
    IN  IF node \in DOMAIN d THEN [kind |-> "Return", value |-> d[node]]
        ELSE [kind |-> "Raise", exc |-> "KeyError"]

\* DiGraph.successors(n) / predecessors(n) raise NetworkXError for a node
\* that is not in the graph
get_neighbors(g, node, direction) ==
    IF ~HasNode(g, node) THEN [kind |-> "Raise", exc |-> "NetworkXError"]
    ELSE IF direction = "out" THEN [kind |-> "Return", value |-> g.succ[node]]
    ELSE [kind |-> "Return", value |-> g.pred[node]]

(***************************************************************************)
(* networkx shortest paths, as called by algorithms/shortest_paths.py      *)
(***************************************************************************)
\* nx.has_path(G, source, target): is target reachable along directed edges
RECURSIVE ReachSet(_, _)
ReachSet(g, S) ==
    LET T == S \cup {v \in DOMAIN g.succ : \E u \in S : has_edge(g, u, v)}
    IN  IF T = S THEN S ELSE ReachSet(g, T)

has_path(g, source, target) == target \in ReachSet(g, {source})

\* heappop of the fringe of (distance, counter, node) triples
PopMin(fringe) ==
    CHOOSE m \in fringe :
        \A x \in fringe : m[1] < x[1] \/ (m[1] = x[1] /\ m[2] <= x[2])

\* The loop over G_succ[v].items() in _dijkstra_multisource, from the i-th
\* successor of v: a shorter way to a finished node raises ValueError
\* ("Contradictory paths found: negative weights?"), an improvement is pushed.
RECURSIVE DijkstraRelax(_, _, _, _)
DijkstraRelax(g, st, v, i) ==
    IF st.raised \/ i > Len(g.succ[v]) THEN st
    ELSE LET u == g.succ[v][i]
             vu_dist == st.dist[v] + g.weight[<<v, u>>]
         IN  IF u \in DOMAIN st.dist
             THEN IF vu_dist < st.dist[u]
                  THEN [st EXCEPT !.raised = TRUE]
                  ELSE DijkstraRelax(g, st, v, i + 1)
             ELSE IF u \notin DOMAIN st.seen \/ vu_dist < st.seen[u]
                  THEN DijkstraRelax(g,
                           [st EXCEPT !.seen = Put(@, u, vu_dist),
                                      !.fringe = @ \cup {<<vu_dist, st.c, u>>},
                                      !.c = @ + 1,
                                      !.paths = Put(@, u, Append(st.paths[v], u))],
                           v, i + 1)
                  ELSE DijkstraRelax(g, st, v, i + 1)

\* The while loop of _dijkstra_multisource; target is {} or {t}
RECURSIVE DijkstraLoop(_, _, _)
DijkstraLoop(g, st, target) ==
    IF st.raised \/ st.fringe = {} THEN st
    ELSE LET m == PopMin(st.fringe)
             v == m[3]
             st1 == [st EXCEPT !.fringe = @ \ {m}]
         IN  IF v \in DOMAIN st1.dist
             THEN DijkstraLoop(g, st1, target)
             ELSE LET st2 == [st1 EXCEPT !.dist = Put(@, v, m[1])]
                  IN  IF v \in target THEN st2
                      ELSE DijkstraLoop(g, DijkstraRelax(g, st2, v, 1), target)

\* _dijkstra_multisource(G, {source}, weight, paths, target)
dijkstra_multisource(g, source, target) ==
    DijkstraLoop(g,
                 [dist |-> EmptyMap, seen |-> Put(EmptyMap, source, 0),
                  fringe |-> {<<0, 0, source>>}, c |-> 1,
                  paths |-> Put(EmptyMap, source, <<source>>), raised |-> FALSE],
                 target)

\* nx.dijkstra_path / nx.dijkstra_path_length(G, source, target, weight='weight')
nx_dijkstra(g, source, target) ==
    IF ~HasNode(g, source) THEN [kind |-> "NodeNotFound"]
    ELSE IF source = target THEN [kind |-> "Return", path |-> <<source>>, length |-> 0]
    ELSE LET st == dijkstra_multisource(g, source, {target})
         IN  IF st.raised THEN [kind |-> "ValueError"]
             ELSE IF target \notin DOMAIN st.dist THEN [kind |-> "NetworkXNoPath"]
             ELSE [kind |-> "Return", path |-> st.paths[target],
                   length |-> st.dist[target]]

\* nx.single_source_dijkstra_path_length / _path(G, source, weight='weight')
nx_single_source_dijkstra(g, source) ==
    LET st == dijkstra_multisource(g, source, {})
    IN  IF st.raised THEN [kind |-> "ValueError"]
        ELSE [kind |-> "Return", lengths |-> st.dist, paths |-> st.paths]

(***************************************************************************)
(* algorithms/shortest_paths.py                                            *)
(***************************************************************************)
RECURSIVE MaxOver(_, _, _)
MaxOver(f, S, m) ==
    IF S = {} THEN m
    ELSE LET x == CHOOSE y \in S : TRUE
         IN  MaxOver(f, S \ {x}, IF f[x] > m THEN f[x] ELSE m)

\* the max_weight loop of the inverse branch: starts from 0
max_weight(g) == MaxOver(g.weight, DOMAIN g.weight, 0)

\* the loop that rewrites every edge of a graph to max_weight + 1 - weight
InvertWeights(g, mw) ==
    [g EXCEPT !.weight = [e \in DOMAIN g.weight |-> mw + 1 - g.weight[e]]]

\* a mutant of InverseTransform: no copy, the loop rewrites nx_graph itself
InverseTransformInPlace(g) ==
    LET inverted == InvertWeights(g, max_weight(g))
    IN  [nx_graph |-> inverted, inverted_graph |-> inverted]

\* inverted_graph = nx_graph.copy(), then the loop rewrites inverted_graph:
\* the two objects the inverse branch holds when the loop is done
InverseTransform(g) ==
    LET copied == g
    IN  [nx_graph |-> g, inverted_graph |-> InvertWeights(copied, max_weight(g))]

\* the sum of the stored weights along a path
RECURSIVE PathWeight(_, _)
PathWeight(g, path) ==
    IF Len(path) < 2 THEN 0
    ELSE g.weight[<<path[1], path[2]>>] + PathWeight(g, Tail(path))

\* the results: (path, distance), (None, None), or an exception that escapes
NoPath == [kind |-> "NoPath"]

\* dijkstra_shortest_path(graph, source, target, weight_type), with the graph
\* object as the call leaves it
dijkstra_shortest_path(g, source, target, weight_type) ==
    IF ~HasNode(g, source) \/ ~HasNode(g, target) THEN [out |-> NoPath, graph |-> g]
    ELSE IF ~has_path(g, source, target) THEN [out |-> NoPath, graph |-> g]
    ELSE IF weight_type = "inverse"
    THEN LET objs == InverseTransform(g)
             r == nx_dijkstra(objs.inverted_graph, source, target)
         IN  [graph |-> objs.nx_graph,
              out |-> IF r.kind = "Return"
                      THEN [kind |-> "Path", path |-> r.path,
                            distance |-> PathWeight(objs.nx_graph, r.path)]
                      ELSE IF r.kind \in {"NetworkXNoPath", "NodeNotFound"} THEN NoPath
                      ELSE [kind |-> "Raise", exc |-> r.kind]]
    ELSE LET r == nx_dijkstra(g, source, target)
         IN  [graph |-> g,
              out |-> IF r.kind = "Return"
                      THEN [kind |-> "Path", path |-> r.path, distance |-> r.length]
                      ELSE IF r.kind \in {"NetworkXNoPath", "NodeNotFound"} THEN NoPath
                      ELSE [kind |-> "Raise", exc |-> r.kind]]

\* dijkstra_from_source(graph, source): always on the stored weights
dijkstra_from_source(g, source) ==
    IF ~HasNode(g, source)
    THEN [kind |-> "Return", lengths |-> EmptyMap, paths |-> EmptyMap]
    ELSE LET r == nx_single_source_dijkstra(g, source)
         IN  IF r.kind = "Return" THEN r ELSE [kind |-> "Raise", exc |-> r.kind]

(***************************************************************************)
(* The undirected projection: DiGraph.to_undirected()                      *)
(* An undirected graph is a record nodes / adj / weight, weight being      *)
(* defined on both orders of every adjacent pair.                          *)
(***************************************************************************)
AddNodeU(U, u, v) ==
    LET U1 == IF u \in DOMAIN U.adj THEN U
              ELSE [U EXCEPT !.nodes = Append(@, u), !.adj = Put(@, u, <<>>)]
    IN  IF v \in DOMAIN U1.adj THEN U1
        ELSE [U1 EXCEPT !.nodes = Append(@, v), !.adj = Put(@, v, <<>>)]

\* Graph.add_edge(u, v, weight=w) of an undirected graph: the attribute of an
\* edge that is already there is overwritten
und_add_edge(U, u, v, w) ==
    LET U1 == AddNodeU(U, u, v)
        adjU == IF v \in Range(U1.adj[u]) THEN U1.adj[u] ELSE Append(U1.adj[u], v)
        U2 == [U1 EXCEPT !.adj = Put(@, u, adjU)]
        adjV == IF u \in Range(U2.adj[v]) THEN U2.adj[v] ELSE Append(U2.adj[v], u)
    IN  [U2 EXCEPT !.adj = Put(@, v, adjV),
                   !.weight = Put(Put(@, <<u, v>>, w), <<v, u>>, w)]

\* G.add_edges_from over the directed edges, in DiGraph iteration order.
\* st holds the loop's variables (the graph under construction, the position
\* in the list); the iterations st.i..hi run in order, half after half
RECURSIVE UndAddEdges(_, _, _, _)
UndAddEdges(st, g, edges, hi) ==
    IF st.i > hi THEN st
    ELSE IF st.i = hi
    THEN LET e == edges[st.i]
         IN  [U |-> und_add_edge(st.U, e[1], e[2], g.weight[e]), i |-> st.i + 1]
    ELSE UndAddEdges(UndAddEdges(st, g, edges, (st.i + hi) \div 2), g, edges, hi)

\* nx_graph.to_undirected(): the nodes in order, then every directed edge
to_undirected(g) ==
    UndAddEdges([U |-> [nodes |-> g.nodes,
                        adj |-> [n \in DOMAIN g.succ |-> <<>>],
                        weight |-> EmptyMap],
                 i |-> 1],
                g, get_edges(g), Len(get_edges(g))).U

\* Graph.edges(): per node in order, the neighbours not yet visited as a node
RECURSIVE UndEdgesFrom(_, _, _)
UndEdgesFrom(U, lo, hi) ==
    IF lo > hi THEN <<>>
    ELSE IF lo = hi
    THEN LET n == U.nodes[lo]
             done == {U.nodes[k] : k \in 1..(lo - 1)}
         IN  SelectSeq([j \in 1..Len(U.adj[n]) |-> <<n, U.adj[n][j]>>],
                       LAMBDA e : e[2] \notin done)
    ELSE UndEdgesFrom(U, lo, (lo + hi) \div 2) \o UndEdgesFrom(U, (lo + hi) \div 2 + 1, hi)

und_edges(U) == UndEdgesFrom(U, 1, Len(U.nodes))

(***************************************************************************)
(* nx.minimum_spanning_tree(undirected, weight='weight', 'kruskal')        *)
(***************************************************************************)
\* sorted(edges, key=weight): a stable sort, so an edge comes after the
\* lighter edges and after the equally heavy edges that were before it
StableSortByWeight(U, edges) ==
    LET n == Len(edges)
        rank == Dict([i \in 1..n |->
                    1 + Cardinality({j \in 1..n :
                            \/ U.weight[edges[j]] < U.weight[edges[i]]
                            \/ (U.weight[edges[j]] = U.weight[edges[i]] /\ j < i)})])
    IN  [p \in 1..n |-> edges[CHOOSE i \in 1..n : rank[i] = p]]

\* Kruskal over the sorted edges; root is the union-find (node -> subtree).
\* The iterations st.i..hi run in order, half after half
RECURSIVE KruskalLoop(_, _, _, _)
KruskalLoop(U, st, edges, hi) ==
    IF st.i > hi THEN st
    ELSE IF st.i = hi
    THEN LET u == edges[st.i][1]
             v == edges[st.i][2]
         IN  IF st.root[u] # st.root[v]
             THEN [T |-> und_add_edge(st.T, u, v, U.weight[edges[st.i]]),
                   root |-> Dict([x \in DOMAIN st.root |->
                                    IF st.root[x] = st.root[v] THEN st.root[u]
                                    ELSE st.root[x]]),
                   i |-> st.i + 1]
             ELSE [st EXCEPT !.i = @ + 1]
    ELSE KruskalLoop(U, KruskalLoop(U, st, edges, (st.i + hi) \div 2), edges, hi)

\* T has every node of G and the accepted edges
nx_minimum_spanning_tree(U) ==
    LET edges == StableSortByWeight(U, und_edges(U))
    IN  KruskalLoop(U,
                    [T |-> [nodes |-> U.nodes, adj |-> [n \in DOMAIN U.adj |-> <<>>],
                            weight |-> EmptyMap],
                     root |-> [n \in DOMAIN U.adj |-> n],
                     i |-> 1],
                    edges, Len(edges)).T

(***************************************************************************)
(* algorithms/spanning_trees/minimum_spanning_tree.py, detection/mst_analyzer.py *)
(***************************************************************************)
\* (a variant that copies each MST edge one way only; it must be told apart
\* from the loop below by the symmetry of the result)
RECURSIVE MstToDirectedOneWay(_, _, _, _)
MstToDirectedOneWay(st, T, edges, hi) ==
    IF st.i > hi THEN st
    ELSE IF st.i = hi
    THEN LET u == edges[st.i][1]
             v == edges[st.i][2]
             w == T.weight[edges[st.i]]
         IN  [result |-> add_email(st.result, u, v, w), i |-> st.i + 1]
    ELSE MstToDirectedOneWay(MstToDirectedOneWay(st, T, edges, (st.i + hi) \div 2),
                             T, edges, hi)

\* the loop that copies each MST edge into a DirectedEmailGraph, both ways
RECURSIVE MstToDirected(_, _, _, _)
MstToDirected(st, T, edges, hi) ==
    IF st.i > hi THEN st
    ELSE IF st.i = hi
    THEN LET u == edges[st.i][1]
             v == edges[st.i][2]
             w == T.weight[edges[st.i]]
         IN  [result |-> add_email(add_email(st.result, u, v, w), v, u, w),
              i |-> st.i + 1]
    ELSE MstToDirected(MstToDirected(st, T, edges, (st.i + hi) \div 2), T, edges, hi)

compute_minimum_spanning_tree(g) ==
    LET T == nx_minimum_spanning_tree(to_undirected(g))
        edges == und_edges(T)
    IN  MstToDirected([result |-> EmptyGraph, i |-> 1], T, edges, Len(edges)).result

\* DirectedEmailGraph.get_number_of_edges: the directed edges of the DiGraph
get_number_of_edges(g) == Cardinality(DOMAIN g.weight)

\* sum(data.get('weight', 1) for _, _, data in edges(data=True)), over the
\* positions lo..hi of the edge list
RECURSIVE SumEdgeWeights(_, _, _, _)
SumEdgeWeights(g, edges, lo, hi) ==
    IF lo > hi THEN 0
    ELSE IF lo = hi THEN g.weight[edges[lo]]
    ELSE SumEdgeWeights(g, edges, lo, (lo + hi) \div 2)
         + SumEdgeWeights(g, edges, (lo + hi) \div 2 + 1, hi)

\* get_mst_statistics(mst); the average is a float, kept as a fraction
get_mst_statistics(mst) ==
    LET total_weight == SumEdgeWeights(mst, get_edges(mst), 1, Len(get_edges(mst)))
    IN  [num_nodes |-> get_number_of_nodes(mst),
         num_edges |-> get_number_of_edges(mst),
         total_weight |-> total_weight,
         average_edge_weight |->
             IF get_number_of_edges(mst) > 0
             THEN <<total_weight, get_number_of_edges(mst)>>
             ELSE <<0, 1>>]

\* degree / total_nodes > threshold, the threshold given in hundredths
detect_mst_star_topology(mst, threshold_pct) ==
    LET out_degrees == get_out_degree(mst)
        total_nodes == get_number_of_nodes(mst)
    IN  SelectSeq(mst.nodes,
                  LAMBDA node : total_nodes > 0
                                /\ out_degrees[node] * 100 > threshold_pct * total_nodes)

\* MSTAnalyzer.detect_star_topology(threshold=0.5)
MSTAnalyzer_detect_star_topology(mst) == detect_mst_star_topology(mst, STAR_THRESHOLD_PCT)

(***************************************************************************)
(* Rational numbers <<numerator, denominator>> in lowest terms, for the    *)
(* values the program holds as floats.                                     *)
(***************************************************************************)
RECURSIVE GCD(_, _)
GCD(a, b) == IF b = 0 THEN a ELSE GCD(b, a % b)

Abs(x) == IF x < 0 THEN -x ELSE x

Rat(n, d) ==
    LET k == GCD(Abs(n), Abs(d))
        sg == IF d < 0 THEN -1 ELSE 1
    IN  <<sg * (n \div k), sg * (d \div k)>>

RInt(n) == <<n, 1>>
RAdd(x, y) == Rat(x[1] * y[2] + y[1] * x[2], x[2] * y[2])
RMul(x, y) == Rat(x[1] * y[1], x[2] * y[2])
RDiv(x, y) == Rat(x[1] * y[2], x[2] * y[1])
RLess(x, y) == x[1] * y[2] < y[1] * x[2]
RLeq(x, y) == x[1] * y[2] <= y[1] * x[2]

(***************************************************************************)
(* nx.betweenness_centrality(undirected, normalized, weight='weight')      *)
(***************************************************************************)
PopMinQ(Q) ==
    CHOOSE m \in Q : \A x \in Q : m[1] < x[1] \/ (m[1] = x[1] /\ m[2] <= x[2])

\* the loop over G[v].items() in _single_source_dijkstra_path_basic; st.i is
\* the position in G[v], and the iterations st.i..hi run in order
RECURSIVE BrandesRelax(_, _, _, _, _)
BrandesRelax(U, st, v, dist, hi) ==
    IF st.i > hi THEN st
    ELSE IF st.i = hi
    THEN LET w == U.adj[v][st.i]
             vw_dist == dist + U.weight[<<v, w>>]
         IN  IF w \notin DOMAIN st.D /\ (w \notin DOMAIN st.seen \/ vw_dist < st.seen[w])
             THEN [st EXCEPT !.seen = Put(@, w, vw_dist),
                             !.Q = @ \cup {<<vw_dist, st.c, v, w>>},
                             !.c = @ + 1,
                             !.sigma = Put(@, w, 0),
                             !.P = Put(@, w, <<v>>),
                             !.i = @ + 1]
             ELSE IF vw_dist = st.seen[w]
             THEN [st EXCEPT !.sigma = Put(@, w, st.sigma[w] + st.sigma[v]),
                             !.P = Put(@, w, Append(st.P[w], v)),
                             !.i = @ + 1]
             ELSE [st EXCEPT !.i = @ + 1]
    ELSE BrandesRelax(U, BrandesRelax(U, st, v, dist, (st.i + hi) \div 2), v, dist, hi)

\* one iteration of the while loop of _single_source_dijkstra_path_basic
BrandesPop(U, st) ==
    LET m == PopMinQ(st.Q)
        pred == m[3]
        v == m[4]
        st1 == [st EXCEPT !.Q = @ \ {m}]
    IN  IF v \in DOMAIN st1.D THEN st1
        ELSE BrandesRelax(U,
                 [st1 EXCEPT !.sigma = Put(@, v, st1.sigma[v] + st1.sigma[pred]),
                             !.S = Append(@, v),
                             !.D = Put(@, v, m[1]),
                             !.i = 1],
                 v, m[1], Len(U.adj[v]))

\* the while loop: at most n more iterations, until the heap is empty
RECURSIVE BrandesLoop(_, _, _)
BrandesLoop(U, st, n) ==
    IF st.Q = {} \/ n = 0 THEN st
    ELSE IF n = 1 THEN BrandesPop(U, st)
    ELSE BrandesLoop(U, BrandesLoop(U, st, n \div 2), n - n \div 2)

\* the heap gets the source and then at most one entry per adjacency entry,
\* so the loop ends within that many iterations
single_source_dijkstra_path_basic(U, s) ==
    BrandesLoop(U,
                [S |-> <<>>,
                 P |-> [v \in DOMAIN U.adj |-> <<>>],
                 sigma |-> [v \in DOMAIN U.adj |-> IF v = s THEN 1 ELSE 0],
                 D |-> EmptyMap,
                 seen |-> Put(EmptyMap, s, 0),
                 Q |-> {<<0, 0, s, s>>},
                 c |-> 1,
                 i |-> 1],
                1 + Cardinality(DOMAIN U.weight))

\* for v in P[w]: delta[v] += sigma[v] * coeff
RECURSIVE AccumulatePreds(_, _, _, _, _)
AccumulatePreds(st, sigma, preds, coeff, hi) ==
    IF st.i > hi THEN st
    ELSE IF st.i = hi
    THEN LET v == preds[st.i]
         IN  [delta |-> Put(st.delta, v, RAdd(st.delta[v], RMul(RInt(sigma[v]), coeff))),
              i |-> st.i + 1]
    ELSE AccumulatePreds(AccumulatePreds(st, sigma, preds, coeff, (st.i + hi) \div 2),
                         sigma, preds, coeff, hi)

\* one iteration of the while loop of _accumulate_basic: S is popped from its end
AccumulatePop(st, P, sigma, s) ==
    LET w == st.S[Len(st.S)]
        coeff == RDiv(RAdd(RInt(1), st.delta[w]), RInt(sigma[w]))
        delta1 == AccumulatePreds([delta |-> st.delta, i |-> 1], sigma, P[w], coeff,
                                  Len(P[w])).delta
    IN  [betweenness |->
             IF w # s
             THEN Put(st.betweenness, w, RAdd(st.betweenness[w], delta1[w]))
             ELSE st.betweenness,
         delta |-> delta1,
         S |-> SubSeq(st.S, 1, Len(st.S) - 1)]

\* _accumulate_basic: the next n iterations of "while S"
RECURSIVE AccumulateBasic(_, _, _, _, _)
AccumulateBasic(st, P, sigma, s, n) ==
    IF st.S = <<>> \/ n = 0 THEN st
    ELSE IF n = 1 THEN AccumulatePop(st, P, sigma, s)
    ELSE AccumulateBasic(AccumulateBasic(st, P, sigma, s, n \div 2), P, sigma, s,
                         n - n \div 2)

\* the loop over the sources b.i..hi, in node order
RECURSIVE BetweennessFrom(_, _, _)
BetweennessFrom(U, b, hi) ==
    IF b.i > hi THEN b
    ELSE IF b.i = hi
    THEN LET s == U.nodes[b.i]
             st == single_source_dijkstra_path_basic(U, s)
         IN  [betweenness |->
                  AccumulateBasic([betweenness |-> b.betweenness,
                                   delta |-> [v \in Range(st.S) |-> RInt(0)],
                                   S |-> st.S],
                                  st.P, st.sigma, s, Len(st.S)).betweenness,
              i |-> b.i + 1]
    ELSE BetweennessFrom(U, BetweennessFrom(U, b, (b.i + hi) \div 2), hi)

\* (a variant that leaves the accumulated values as they are)
rescale_none(betweenness, n, normalized) == betweenness

\* _rescale for an undirected graph, k = None, endpoints = False
rescale(betweenness, n, normalized) ==
    IF normalized
    THEN IF n <= 2 THEN betweenness
         ELSE [v \in DOMAIN betweenness |->
                  RMul(betweenness[v], Rat(1, (n - 1) * (n - 2)))]
    ELSE [v \in DOMAIN betweenness |-> RMul(betweenness[v], Rat(1, 2))]

nx_betweenness_centrality(U, normalized) ==
    rescale(BetweennessFrom(U, [betweenness |-> [v \in DOMAIN U.adj |-> RInt(0)],
                                i |-> 1],
                            Len(U.nodes)).betweenness,
            Len(U.nodes), normalized)

\* algorithms/centrality/betweenness.py
calculate_betweenness_centrality(g, normalized) ==
    nx_betweenness_centrality(to_undirected(g), normalized)

(***************************************************************************)
(* algorithms/metrics/network_metrics.py and the networkx functions it     *)
(* calls.  A subgraph view is the projection U with the node set S; a      *)
(* result is [kind |-> "Return", value |-> ...] or [kind |-> "Raise", ...] *)
(***************************************************************************)
Return(v) == [kind |-> "Return", value |-> v]
Raise(exc) == [kind |-> "Raise", exc |-> exc]

\* breadth-first search by levels (the paths are unweighted: weight=None)
RECURSIVE BfsLevels(_, _, _, _, _)
BfsLevels(U, S, frontier, dist, d) ==
    IF frontier = {} THEN dist
    ELSE LET next == {v \in S \ DOMAIN dist :
                         \E u \in frontier : v \in Range(U.adj[u])}
         IN  BfsLevels(U, S, next,
                       [v \in DOMAIN dist \cup next |->
                           IF v \in DOMAIN dist THEN dist[v] ELSE d + 1],
                       d + 1)

\* nx.shortest_path_length(G, source=n): node -> number of hops
shortest_path_length(U, S, source) ==
    BfsLevels(U, S, {source}, [v \in {source} |-> 0], 0)

\* nx.connected_components: one component per node not seen yet, in node order
RECURSIVE ComponentsFrom(_, _, _)
ComponentsFrom(U, i, seen) ==
    IF i > Len(U.nodes) THEN <<>>
    ELSE IF U.nodes[i] \in seen THEN ComponentsFrom(U, i + 1, seen)
    ELSE LET c == DOMAIN shortest_path_length(U, Range(U.nodes), U.nodes[i])
         IN  <<c>> \o ComponentsFrom(U, i + 1, seen \cup c)

nx_connected_components(U) == ComponentsFrom(U, 1, {})

\* max(components, key=len): the first of the largest
MaxByLen(components) ==
    components[CHOOSE i \in DOMAIN components :
        /\ \A j \in DOMAIN components :
              Cardinality(components[j]) <= Cardinality(components[i])
        /\ \A j \in 1..(i - 1) :
              Cardinality(components[j]) < Cardinality(components[i])]

\* nx.is_connected: undefined for the null graph
nx_is_connected(U) ==
    IF Len(U.nodes) = 0 THEN Raise("NetworkXPointlessConcept")
    ELSE Return(DOMAIN shortest_path_length(U, Range(U.nodes), U.nodes[1])
                    = Range(U.nodes))

RECURSIVE SumOver(_, _)
SumOver(f, S) ==
    IF S = {} THEN 0
    ELSE LET x == CHOOSE y \in S : TRUE
         IN  f[x] + SumOver(f, S \ {x})

RECURSIVE MinOver(_, _, _)
MinOver(f, S, m) ==
    IF S = {} THEN m
    ELSE LET x == CHOOSE y \in S : TRUE
         IN  MinOver(f, S \ {x}, IF f[x] < m THEN f[x] ELSE m)

\* nx.eccentricity of a connected graph: the largest distance from each node
nx_eccentricity(U, S) ==
    [n \in S |-> LET length == shortest_path_length(U, S, n)
                 IN  MaxOver(length, DOMAIN length, 0)]

nx_diameter(U, S) ==
    LET e == nx_eccentricity(U, S) IN MaxOver(e, S, 0)

nx_radius(U, S) ==
    LET e == nx_eccentricity(U, S)
        n == CHOOSE y \in S : TRUE
    IN  MinOver(e, S, e[n])

\* nx.average_shortest_path_length of a connected graph with n nodes: 0 for
\* n = 1, else the sum of all distances over n * (n - 1)
nx_average_shortest_path_length(U, S) ==
    LET n == Cardinality(S)
        total == [v \in S |-> LET length == shortest_path_length(U, S, v)
                              IN  SumOver(length, DOMAIN length)]
    IN  IF n = 1 THEN RInt(0)
        ELSE Rat(SumOver(total, S), n * (n - 1))

\* the whole projection if it is connected, else its largest component, with
\* 0 for a component of one node
diameter(g) ==
    LET undirected == to_undirected(g)
        connected == nx_is_connected(undirected)
    IN  IF connected.kind = "Raise" THEN connected
        ELSE IF ~connected.value
        THEN LET largest_cc == MaxByLen(nx_connected_components(undirected))
             IN  IF Cardinality(largest_cc) > 1
                 THEN Return(nx_diameter(undirected, largest_cc))
                 ELSE Return(0)
        ELSE Return(nx_diameter(undirected, Range(undirected.nodes)))

radius(g) ==
    LET undirected == to_undirected(g)
        connected == nx_is_connected(undirected)
    IN  IF connected.kind = "Raise" THEN connected
        ELSE IF ~connected.value
        THEN LET largest_cc == MaxByLen(nx_connected_components(undirected))
             IN  IF Cardinality(largest_cc) > 1
                 THEN Return(nx_radius(undirected, largest_cc))
                 ELSE Return(0)
        ELSE Return(nx_radius(undirected, Range(undirected.nodes)))

average_shortest_path_length(g) ==
    LET undirected == to_undirected(g)
        connected == nx_is_connected(undirected)
    IN  IF connected.kind = "Raise" THEN connected
        ELSE IF ~connected.value
        THEN LET largest_cc == MaxByLen(nx_connected_components(undirected))
             IN  IF Cardinality(largest_cc) > 1
                 THEN Return(nx_average_shortest_path_length(undirected, largest_cc))
                 ELSE Return(RInt(0))
        ELSE Return(nx_average_shortest_path_length(undirected, Range(undirected.nodes)))

\* twice the number of triangles through v, and v's degree, self-loops
\* ignored (networkx's _triangles_and_degree_iter)
Neighbours(U, v) == Range(U.adj[v]) \ {v}

TwiceTriangles(U, v) ==
    LET vs == Neighbours(U, v)
        shared == [w \in vs |-> Cardinality(vs \cap Neighbours(U, w))]
    IN  SumOver(shared, vs)

\* nx.clustering(G): 0 if t == 0 else t / (d * (d - 1))
nx_clustering(U) ==
    [v \in Range(U.nodes) |->
        LET d == Cardinality(Neighbours(U, v))
            t == TwiceTriangles(U, v)
        IN  IF t = 0 THEN RInt(0) ELSE Rat(t, d * (d - 1))]

RECURSIVE RSumOver(_, _)
RSumOver(f, S) ==
    IF S = {} THEN RInt(0)
    ELSE LET x == CHOOSE y \in S : TRUE
         IN  RAdd(f[x], RSumOver(f, S \ {x}))

\* nx.average_clustering: sum(c) / len(c)
nx_average_clustering(U) ==
    LET c == nx_clustering(U)
    IN  IF DOMAIN c = {} THEN Raise("ZeroDivisionError")
        ELSE Return(RDiv(RSumOver(c, DOMAIN c), RInt(Cardinality(DOMAIN c))))

average_clustering_coefficient(g) == nx_average_clustering(to_undirected(g))

\* nx.density of the directed graph: m / (n * (n - 1)), 0 without edges or
\* with at most one node
network_density(g) ==
    LET n == get_number_of_nodes(g)
        m == get_number_of_edges(g)
    IN  IF m = 0 \/ n <= 1 THEN RInt(0) ELSE Rat(m, n * (n - 1))

average_degree(g) ==
    LET num_nodes == get_number_of_nodes(g)
        num_edges == get_number_of_edges(g)
    IN  IF num_nodes = 0 THEN RInt(0) ELSE Rat(2 * num_edges, num_nodes)

\* sum(nx.triangles(undirected).values()) // 3
number_of_triangles(g) ==
    LET U == to_undirected(g)
        triangles == [v \in Range(U.nodes) |-> TwiceTriangles(U, v) \div 2]
    IN  SumOver(triangles, Range(U.nodes)) \div 3

\* the dict display evaluates its values in order; the first exception leaves
get_all_metrics(g) ==
    LET d == diameter(g)
        r == radius(g)
        l == average_shortest_path_length(g)
        c == average_clustering_coefficient(g)
    IN  IF d.kind = "Raise" THEN d
        ELSE IF r.kind = "Raise" THEN r
        ELSE IF l.kind = "Raise" THEN l
        ELSE IF c.kind = "Raise" THEN c
        ELSE Return([num_nodes |-> get_number_of_nodes(g),
                     num_edges |-> get_number_of_edges(g),
                     average_degree |-> average_degree(g),
                     density |-> network_density(g),
                     diameter |-> d.value,
                     radius |-> r.value,
                     average_path_length |-> l.value,
                     average_clustering |-> c.value,
                     triangles |-> number_of_triangles(g)])

(***************************************************************************)
(* algorithms/connectivity/connected_components.py                         *)
(***************************************************************************)
\* (a variant of the search that follows the successors only)
RECURSIVE plain_bfs_successors(_, _, _)
plain_bfs_successors(g, seen, frontier) ==
    IF frontier = {} THEN seen
    ELSE LET next == {v \in DOMAIN g.succ \ seen :
                         \E u \in frontier : v \in Range(g.succ[u])}
         IN  plain_bfs_successors(g, seen \cup next, next)

\* networkx's _plain_bfs on a directed graph: from each node to its
\* successors and its predecessors
RECURSIVE plain_bfs(_, _, _)
plain_bfs(g, seen, frontier) ==
    IF frontier = {} THEN seen
    ELSE LET next == {v \in DOMAIN g.succ \ seen :
                         \E u \in frontier :
                             v \in Range(g.succ[u]) \/ v \in Range(g.pred[u])}
         IN  plain_bfs(g, seen \cup next, next)

\* nx.weakly_connected_components: for v in G, a new component for every v
\* not seen yet
RECURSIVE WeaklyConnectedFrom(_, _, _)
WeaklyConnectedFrom(g, i, seen) ==
    IF i > Len(g.nodes) THEN <<>>
    ELSE IF g.nodes[i] \in seen THEN WeaklyConnectedFrom(g, i + 1, seen)
    ELSE LET c == plain_bfs(g, {g.nodes[i]}, {g.nodes[i]})
         IN  <<c>> \o WeaklyConnectedFrom(g, i + 1, seen \cup c)

nx_weakly_connected_components(g) == WeaklyConnectedFrom(g, 1, {})

\* list(components)
get_weakly_connected_components(g) == nx_weakly_connected_components(g)

\* nx.number_weakly_connected_components: sum(1 for wcc in ...)
number_of_weakly_connected_components(g) ==
    Len(nx_weakly_connected_components(g))

(***************************************************************************)
(* algorithms/metrics/degree_stats.py                                      *)
(***************************************************************************)
\* float('inf') is written <<1, 0>>
Infinity == <<1, 0>>

\* (a variant that gives 0 whenever the in-degree is 0)
get_degree_ratio_zero(g) ==
    LET in_degrees == get_in_degree(g)
        out_degrees == get_out_degree(g)
    IN  [node \in Range(get_nodes(g)) |->
            IF in_degrees[node] = 0
            THEN RInt(0)
            ELSE Rat(out_degrees[node], in_degrees[node])]

get_degree_ratio(g) ==
    LET in_degrees == get_in_degree(g)
        out_degrees == get_out_degree(g)
    IN  [node \in Range(get_nodes(g)) |->
            IF in_degrees[node] = 0
            THEN IF out_degrees[node] > 0 THEN Infinity ELSE RInt(0)
            ELSE Rat(out_degrees[node], in_degrees[node])]

(***************************************************************************)
(* detection/spam_scorer.py, detection/spam_classifier.py, utils/config.py *)
(***************************************************************************)
SPAM_SCORE_THRESHOLD == 80
SUSPICIOUS_SCORE_THRESHOLD == 40
MIN_SPAM_OUT_DEGREE == 10
\* the three weights 0.4, 0.35 and 0.25, in hundredths
OUT_DEGREE_WEIGHT == 40
CENTRALITY_WEIGHT == 35
BURST_WEIGHT == 25

\* math.log(k) for k = 1..64, in thousandths
LnMilli ==
    <<
       0, 693, 1099, 1386, 1609, 1792, 1946, 2079, 2197, 2303, 2398,
       2485, 2565, 2639, 2708, 2773, 2833, 2890, 2944, 2996, 3045, 3091,
       3135, 3178, 3219, 3258, 3296, 3332, 3367, 3401, 3434, 3466, 3497,
       3526, 3555, 3584, 3611, 3638, 3664, 3689, 3714, 3738, 3761, 3784,
       3807, 3829, 3850, 3871, 3892, 3912, 3932, 3951, 3970, 3989, 4007,
       4025, 4043, 4060, 4078, 4094, 4111, 4127, 4143, 4159 >>

\* normalize_score(value, min_val, max_val, target_min, target_max)
normalize_score(value, min_val, max_val, target_min, target_max) ==
    IF max_val = min_val THEN RInt(target_min)
    ELSE RAdd(RMul(RDiv(RAdd(value, RInt(-min_val)), RInt(max_val - min_val)),
                   RInt(target_max - target_min)),
              RInt(target_min))

RMax(x, y) == IF RLess(x, y) THEN y ELSE x
RMin(x, y) == IF RLess(y, x) THEN y ELSE x

\* SpamScorer.__init__: four dicts computed from the graph at construction;
\* self.graph is a reference to the caller's graph, not a copy
SpamScorer(g) ==
    [constructed |-> TRUE,
     degree_ratios |-> get_degree_ratio(g),
     betweenness |-> calculate_betweenness_centrality(g, TRUE),
     out_degrees |-> get_out_degree(g),
     in_degrees |-> get_in_degree(g)]

NoScorer == [constructed |-> FALSE]

\* (a variant without the final max(0, min(100, score)); the bounds of the
\* degree score must tell it apart)
calculate_degree_score_unclamped(self, node) ==
    LET ratio == Get(self.degree_ratios, node, RInt(0))
        out_deg == Get(self.out_degrees, node, 0)
    IN  IF out_deg < MIN_SPAM_OUT_DEGREE THEN RInt(0)
        ELSE IF ratio = Infinity THEN RInt(100)
        ELSE IF ratio = RInt(0) THEN RInt(0)
        ELSE normalize_score(Rat(LnMilli[ratio[1] + ratio[2]] - LnMilli[ratio[2]], 1000),
                             0, 3, 0, 100)

calculate_degree_score(self, node) ==
    LET ratio == Get(self.degree_ratios, node, RInt(0))
        out_deg == Get(self.out_degrees, node, 0)
    IN  IF out_deg < MIN_SPAM_OUT_DEGREE THEN RInt(0)
        ELSE LET score ==
                     IF ratio = Infinity THEN RInt(100)
                     ELSE IF ratio = RInt(0) THEN RInt(0)
                     ELSE LET log_ratio ==
                                  Rat(LnMilli[ratio[1] + ratio[2]] - LnMilli[ratio[2]], 1000)
                          IN  normalize_score(log_ratio, 0, 3, 0, 100)
             IN  RMax(RInt(0), RMin(RInt(100), score))

calculate_centrality_score(self, node) ==
    RMul(Get(self.betweenness, node, RInt(0)), RInt(100))

\* (a variant in which the burst signal is at its maximum)
calculate_burst_score_max(self, node) == RInt(100)

calculate_burst_score(self, node) == RInt(0)

calculate_combined_score(self, node) ==
    LET weight_sum == OUT_DEGREE_WEIGHT + CENTRALITY_WEIGHT + BURST_WEIGHT
    IN  RAdd(RAdd(RMul(calculate_degree_score(self, node),
                       Rat(OUT_DEGREE_WEIGHT, weight_sum)),
                  RMul(calculate_centrality_score(self, node),
                       Rat(CENTRALITY_WEIGHT, weight_sum))),
             RMul(calculate_burst_score(self, node), Rat(BURST_WEIGHT, weight_sum)))

\* SpamScorer.get_score_components
get_score_components(self, node) ==
    [degree_score |-> calculate_degree_score(self, node),
     centrality_score |-> calculate_centrality_score(self, node),
     burst_score |-> calculate_burst_score(self, node),
     combined_score |-> calculate_combined_score(self, node)]

\* calculate_all_scores: one score per node of self.graph as it is now
calculate_all_scores(self, self_graph) ==
    [node \in Range(get_nodes(self_graph)) |-> calculate_combined_score(self, node)]

\* SpamClassifier.__init__: the two thresholds are stored as given
SpamClassifier(spam_threshold, suspicious_threshold) ==
    [constructed |-> TRUE,
     spam_threshold |-> spam_threshold,
     suspicious_threshold |-> suspicious_threshold]

NoClassifier == [constructed |-> FALSE]

\* (a variant with a strict comparison at the spam threshold)
classify_node_strict(self, score) ==
    IF RLess(RInt(self.spam_threshold), score) THEN "spam"
    ELSE IF RLeq(RInt(self.suspicious_threshold), score) THEN "suspicious"
    ELSE "legitimate"

classify_node(self, score) ==
    IF RLeq(RInt(self.spam_threshold), score) THEN "spam"
    ELSE IF RLeq(RInt(self.suspicious_threshold), score) THEN "suspicious"
    ELSE "legitimate"

classify_all_nodes(self, spam_scores) ==
    [node \in DOMAIN spam_scores |-> classify_node(self, spam_scores[node])]

\* the three list comprehensions; a list of distinct keys is kept as a set
get_spam_nodes(self, spam_scores) ==
    {node \in DOMAIN spam_scores :
        RLeq(RInt(self.spam_threshold), spam_scores[node])}

\* (a variant without the upper bound `score < self.spam_threshold`)
get_suspicious_nodes_unbounded(self, spam_scores) ==
    {node \in DOMAIN spam_scores :
        RLeq(RInt(self.suspicious_threshold), spam_scores[node])}

get_suspicious_nodes(self, spam_scores) ==
    {node \in DOMAIN spam_scores :
        /\ RLeq(RInt(self.suspicious_threshold), spam_scores[node])
        /\ RLess(spam_scores[node], RInt(self.spam_threshold))}

get_legitimate_nodes(self, spam_scores) ==
    {node \in DOMAIN spam_scores :
        RLess(spam_scores[node], RInt(self.suspicious_threshold))}

\* len(nodes) / total * 100 if total > 0 else 0
Percentage(count, total) ==
    IF total > 0 THEN Rat(count * 100, total) ELSE RInt(0)

get_classification_summary(self, spam_scores) ==
    LET spam == get_spam_nodes(self, spam_scores)
        suspicious == get_suspicious_nodes(self, spam_scores)
        legitimate == get_legitimate_nodes(self, spam_scores)
        total == Cardinality(DOMAIN spam_scores)
    IN  [spam_count |-> Cardinality(spam),
         spam_percentage |-> Percentage(Cardinality(spam), total),
         suspicious_count |-> Cardinality(suspicious),
         suspicious_percentage |-> Percentage(Cardinality(suspicious), total),
         legitimate_count |-> Cardinality(legitimate),
         legitimate_percentage |-> Percentage(Cardinality(legitimate), total),
         total_nodes |-> total]

(***************************************************************************)
(* nx.greedy_color(undirected, strategy='largest_first') and the coloring  *)
(* module                                                                  *)
(***************************************************************************)
\* Graph.degree(n): a self-loop counts twice
und_degree(U, n) ==
    Len(U.adj[n]) + (IF n \in Range(U.adj[n]) THEN 1 ELSE 0)

\* sorted(G, key=G.degree, reverse=True): stable, so nodes of equal degree
\* keep the order of the graph
strategy_largest_first(U) ==
    LET n == Len(U.nodes)
        rank == Dict([i \in 1..n |->
                    1 + Cardinality({j \in 1..n :
                            \/ und_degree(U, U.nodes[j]) > und_degree(U, U.nodes[i])
                            \/ (und_degree(U, U.nodes[j]) = und_degree(U, U.nodes[i])
                                /\ j < i)})])
    IN  [p \in 1..n |-> U.nodes[CHOOSE i \in 1..n : rank[i] = p]]

\* the first color of itertools.count() that no colored neighbour has
FirstUnusedColor(nbr_colors) ==
    CHOOSE color \in 0..Cardinality(nbr_colors) :
        /\ color \notin nbr_colors
        /\ \A c \in 0..(color - 1) : c \in nbr_colors

\* the loop `for u in nodes`; st holds colors and the position in nodes
RECURSIVE GreedyColorLoop(_, _, _, _)
GreedyColorLoop(U, st, nodes, hi) ==
    IF st.i > hi THEN st
    ELSE IF st.i = hi
    THEN LET u == nodes[st.i]
             nbr_colors == {st.colors[v] :
                               v \in Range(U.adj[u]) \cap DOMAIN st.colors}
         IN  [colors |-> Put(st.colors, u, FirstUnusedColor(nbr_colors)),
              i |-> st.i + 1]
    ELSE GreedyColorLoop(U, GreedyColorLoop(U, st, nodes, (st.i + hi) \div 2),
                         nodes, hi)

nx_greedy_color(U) ==
    IF Len(U.nodes) = 0 THEN EmptyMap
    ELSE GreedyColorLoop(U, [colors |-> EmptyMap, i |-> 1],
                         strategy_largest_first(U), Len(U.nodes)).colors

greedy_vertex_coloring(g) == nx_greedy_color(to_undirected(g))

\* False as soon as the two ends of an edge of the projection have the same
\* coloring.get(...)
validate_coloring(g, coloring) ==
    \A e \in Range(und_edges(to_undirected(g))) :
        Get(coloring, e[1], "None") # Get(coloring, e[2], "None")

(***************************************************************************)
(* detection/path_analyzer.py                                              *)
(***************************************************************************)
\* the loop `while queue` of get_all_reachable_recipients
RECURSIVE ReachableLoop(_, _, _)
ReachableLoop(g, visited, queue) ==
    IF queue = <<>> THEN visited
    ELSE LET current == Head(queue)
         IN  IF current \notin visited
             THEN LET visited1 == visited \cup {current}
                      neighbors == get_neighbors(g, current, "out").value
                  IN  ReachableLoop(g, visited1,
                          Tail(queue) \o SelectSeq(neighbors,
                                                   LAMBDA n : n \notin visited1))
             ELSE ReachableLoop(g, visited, Tail(queue))

\* (a variant without visited.discard(spam_source))
get_all_reachable_recipients_keep(g, spam_source) ==
    IF spam_source \notin Range(get_nodes(g)) THEN {}
    ELSE ReachableLoop(g, {}, <<spam_source>>)

\* the set `visited` that the method turns into its result
get_all_reachable_recipients(g, spam_source) ==
    IF spam_source \notin Range(get_nodes(g)) THEN {}
    ELSE ReachableLoop(g, {}, <<spam_source>>) \ {spam_source}

\* list(visited): every element once, in an order the set decides
ListsOfSet(S) ==
    {l \in [1..Cardinality(S) -> S] : \A i, j \in 1..Cardinality(S) : l[i] = l[j] => i = j}

(***************************************************************************)
(* History of the add_email calls (not program state).                     *)
(***************************************************************************)
RECURSIVE Record(_, _)
Record(h, emails) ==
    IF emails = <<>> THEN h
    ELSE LET p == <<emails[1][1], emails[1][2]>>
         IN  Record([sum |-> Put(h.sum, p, Get(h.sum, p, 0) + emails[1][3]),
                     n   |-> Put(h.n, p, Get(h.n, p, 0) + 1)],
                    Tail(emails))

Emails == Node \X Node \X Weights

Batches == [1..MaxBatch -> Emails]

WeightTypes == {"inverse", "direct"}

(***************************************************************************)
(* Actions of the small model                                              *)
(***************************************************************************)
Init ==
    /\ graph = EmptyGraph
    /\ sent = EmptyMap
    /\ ncalls = EmptyMap
    /\ calls = 0
    /\ res = [op |-> "init"]
    /\ scorer = NoScorer
    /\ baseline = EmptyMap
    /\ other = NoGraph
    /\ classifier = NoClassifier
    /\ pending = <<>>

\* The graph is built by ingestion and then handed to one analysis query
\* (the queries do not mutate it, so a later query would see the same graph).
Building == res.op \in {"init", "add_email", "add_emails_batch", "SpamScorer"}

MinWeight(emails) ==
    CHOOSE w \in {emails[i][3] : i \in DOMAIN emails} :
        \A j \in DOMAIN emails : w <= emails[j][3]

AddEmail ==
    /\ Building
    /\ calls < MaxCalls
    /\ calls' = calls + 1
    /\ \E e \in Emails :
        /\ graph' = add_email(graph, e[1], e[2], e[3])
        /\ LET h == Record([sum |-> sent, n |-> ncalls], <<e>>)
           IN  sent' = h.sum /\ ncalls' = h.n
        \* add_email returns None and raises nothing
        /\ res' = [op |-> "add_email", weight |-> e[3], kind |-> "Return"]
    /\ UNCHANGED <<scorer, baseline, pending, classifier, other>>

AddEmailsBatch ==
    /\ Building
    /\ calls + MaxBatch <= MaxCalls
    /\ calls' = calls + MaxBatch
    /\ \E b \in Batches :
        /\ graph' = add_emails_batch(graph, b)
        /\ LET h == Record([sum |-> sent, n |-> ncalls], b)
           IN  sent' = h.sum /\ ncalls' = h.n
        /\ res' = [op |-> "add_emails_batch", weight |-> MinWeight(b), kind |-> "Return"]
    /\ UNCHANGED <<scorer, baseline, pending, classifier, other>>

DijkstraShortestPath ==
    /\ Building
    /\ \E source \in Node, target \in Node, weight_type \in WeightTypes :
        LET r == dijkstra_shortest_path(graph, source, target, weight_type)
        IN  /\ graph' = r.graph
            /\ res' = [op |-> "dijkstra_shortest_path", source |-> source,
                       target |-> target, weight_type |-> weight_type, out |-> r.out]
            /\ UNCHANGED <<sent, ncalls, calls, scorer, baseline, pending, classifier, other>>

DijkstraFromSource ==
    /\ Building
    /\ \E source \in Node :
        /\ res' = [op |-> "dijkstra_from_source", source |-> source,
                   out |-> dijkstra_from_source(graph, source)]
        /\ UNCHANGED <<graph, sent, ncalls, calls, scorer, baseline, pending, classifier, other>>

Next ==
    \/ AddEmail
    \/ AddEmailsBatch
    \/ DijkstraShortestPath
    \/ DijkstraFromSource

Spec == Init /\ [][Next]_vars

(***************************************************************************)
(* The analysis model: ingestion, the spanning tree, the scorer            *)
(***************************************************************************)
\* scorer = SpamScorer(graph), followed at once by calculate_all_scores()
ConstructScorer ==
    /\ Building
    /\ ~scorer.constructed
    /\ scorer' = SpamScorer(graph)
    /\ baseline' = calculate_all_scores(scorer', graph)
    /\ res' = [op |-> "SpamScorer"]
    /\ UNCHANGED <<graph, sent, ncalls, calls, pending, classifier, other>>

\* scorer.calculate_all_scores() on the graph as it is now
CalculateAllScores ==
    /\ Building
    /\ scorer.constructed
    /\ res' = [op |-> "calculate_all_scores",
               scores |-> calculate_all_scores(scorer, graph)]
    /\ UNCHANGED <<graph, sent, ncalls, calls, scorer, baseline, pending, classifier, other>>

\* compute_minimum_spanning_tree(graph), with the projection it was run on
ComputeMinimumSpanningTree ==
    /\ Building
    /\ ~scorer.constructed
    /\ res' = [op |-> "compute_minimum_spanning_tree",
               undirected |-> to_undirected(graph),
               mst |-> compute_minimum_spanning_tree(graph)]
    /\ UNCHANGED <<graph, sent, ncalls, calls, scorer, baseline, pending, classifier, other>>

\* MSTAnalyzer(graph).get_mst_metrics()
GetMstMetrics ==
    /\ Building
    /\ ~scorer.constructed
    /\ LET mst == compute_minimum_spanning_tree(graph)
       IN  res' = [op |-> "get_mst_metrics", mst |-> mst,
                   stats |-> get_mst_statistics(mst)]
    /\ UNCHANGED <<graph, sent, ncalls, calls, scorer, baseline, pending, classifier, other>>

NextAnalysis ==
    \/ AddEmail
    \/ ConstructScorer
    \/ CalculateAllScores
    \/ ComputeMinimumSpanningTree
    \/ GetMstMetrics

SpecAnalysis == Init /\ [][NextAnalysis]_vars

(***************************************************************************)
(* The end-to-end ring scenario: generate_spam_ring, ingestion, then the   *)
(* star-topology detector and the scorer with the classifier               *)
(***************************************************************************)
RING_SIZE == 3
SHARED_RECIPIENTS == 50
EMAILS_PER_CONNECTION == 5

Spammer(i) == <<"spam_ring", i>>
Target(j) == <<"target", j>>
RingSenders == {Spammer(i) : i \in 0..(RING_SIZE - 1)}

\* the k-th random.randint(emails_per_connection - 1, emails_per_connection + 3)
\* of a run: one of the five values, fixed by the seed (seed 0 draws the
\* middle value, 6 with the default, every time)
RandInt(seed, k, lo) == lo + ((2 + seed * k + seed * (k \div SHARED_RECIPIENTS)) % 5)

\* EmailGenerator.generate_spam_ring(ring_size, shared_recipients, emails_per_connection)
generate_spam_ring(seed, ring_size, shared_recipients, emails_per_connection) ==
    [k \in 1..(ring_size * shared_recipients) |->
        <<Spammer((k - 1) \div shared_recipients),
          Target((k - 1) % shared_recipients),
          RandInt(seed, k - 1, emails_per_connection - 1)>>]

InitRing ==
    /\ graph = EmptyGraph
    /\ sent = EmptyMap
    /\ ncalls = EmptyMap
    /\ calls = 0
    /\ res = [op |-> "init"]
    /\ scorer = NoScorer
    /\ baseline = EmptyMap
    /\ other = NoGraph
    /\ classifier = NoClassifier
    /\ \E seed \in 0..MaxSeed :
          pending = generate_spam_ring(seed, RING_SIZE, SHARED_RECIPIENTS,
                                       EMAILS_PER_CONNECTION)

\* one iteration of the loop of add_emails_batch
IngestNext ==
    /\ pending # <<>>
    /\ graph' = add_email(graph, pending[1][1], pending[1][2], pending[1][3])
    /\ pending' = Tail(pending)
    /\ LET h == Record([sum |-> sent, n |-> ncalls], <<pending[1]>>)
       IN  sent' = h.sum /\ ncalls' = h.n
    /\ calls' = calls + 1
    /\ res' = [op |-> "add_emails_batch", weight |-> pending[1][3], kind |-> "Return"]
    /\ UNCHANGED <<scorer, baseline, classifier, other>>

\* MSTAnalyzer(graph).detect_star_topology()
DetectStarTopology ==
    /\ pending = <<>> /\ res.op = "add_emails_batch"
    /\ LET mst == compute_minimum_spanning_tree(graph)
       IN  res' = [op |-> "detect_star_topology",
                   total_nodes |-> get_number_of_nodes(mst),
                   out_degrees |-> get_out_degree(mst),
                   star_nodes |-> MSTAnalyzer_detect_star_topology(mst)]
    /\ UNCHANGED <<graph, sent, ncalls, calls, scorer, baseline, pending, classifier, other>>

\* scorer = SpamScorer(graph); scores = scorer.calculate_all_scores();
\* SpamClassifier().classify_all_nodes(scores)
ScoreAndClassify ==
    /\ pending = <<>> /\ res.op = "add_emails_batch"
    /\ scorer' = SpamScorer(graph)
    /\ baseline' = calculate_all_scores(scorer', graph)
    /\ classifier' = SpamClassifier(SPAM_SCORE_THRESHOLD, SUSPICIOUS_SCORE_THRESHOLD)
    /\ res' = [op |-> "classify_all_nodes", scores |-> baseline',
               classifications |-> classify_all_nodes(classifier', baseline')]
    /\ UNCHANGED <<graph, sent, ncalls, calls, pending, other>>

NextRing ==
    \/ IngestNext
    \/ DetectStarTopology
    \/ ScoreAndClassify

SpecRing == InitRing /\ [][NextRing]_vars

(***************************************************************************)
(* The hub scenario: one address writes to n_out recipients and is written *)
(* to by n_in others; the list is ingested and scored like any other       *)
(***************************************************************************)
Hub == <<"hub", 0>>

\* the rows (sender, recipient, count) of such an input
HubEmails(n_out, n_in) ==
    [k \in 1..n_out |-> <<Hub, <<"victim", k>>, 1>>]
    \o [k \in 1..n_in |-> <<<<"user", k>>, Hub, 1>>]

InitHub ==
    /\ graph = EmptyGraph
    /\ sent = EmptyMap
    /\ ncalls = EmptyMap
    /\ calls = 0
    /\ res = [op |-> "init"]
    /\ scorer = NoScorer
    /\ baseline = EmptyMap
    /\ other = NoGraph
    /\ classifier = NoClassifier
    /\ \E n_out \in 0..MaxOut, n_in \in 0..MaxIn : pending = HubEmails(n_out, n_in)

\* scorer.get_score_components(node), after the scores were computed
GetScoreComponents ==
    /\ scorer.constructed /\ res.op = "classify_all_nodes"
    /\ \E node \in Range(get_nodes(graph)) :
          res' = [op |-> "get_score_components", node |-> node,
                  components |-> get_score_components(scorer, node)]
    /\ UNCHANGED <<graph, sent, ncalls, calls, scorer, baseline, pending, classifier, other>>

NextHub ==
    \/ IngestNext
    \/ ScoreAndClassify
    \/ GetScoreComponents

SpecHub == InitHub /\ [][NextHub]_vars


(***************************************************************************)
(* The structural model: a graph built by add_email(sender, recipient)     *)
(* with the default weight, then one structural query                      *)
(***************************************************************************)
\* graph.add_email(sender, recipient): weight has its default 1
AddEmailDefault ==
    /\ Building
    /\ calls < MaxCalls
    /\ calls' = calls + 1
    /\ \E sender \in Node, recipient \in Node :
        /\ graph' = add_email(graph, sender, recipient, 1)
        /\ LET h == Record([sum |-> sent, n |-> ncalls], <<<<sender, recipient, 1>>>>)
           IN  sent' = h.sum /\ ncalls' = h.n
        /\ res' = [op |-> "add_email", weight |-> 1, kind |-> "Return"]
    /\ UNCHANGED <<scorer, baseline, pending, classifier, other>>

\* coloring = greedy_vertex_coloring(graph); validate_coloring(graph, coloring)
GreedyVertexColoring ==
    /\ Building
    /\ LET coloring == greedy_vertex_coloring(graph)
       IN  res' = [op |-> "greedy_vertex_coloring", coloring |-> coloring,
                   valid |-> validate_coloring(graph, coloring)]
    /\ UNCHANGED <<graph, sent, ncalls, calls, scorer, baseline, pending, classifier, other>>

\* the nodes asked about: the three that may be in the graph and one that
\* never is
AbsentNode == "x"
QueryNode == Node \cup {AbsentNode}

GetInDegree ==
    /\ Building
    /\ \E node \in QueryNode :
          res' = [op |-> "get_in_degree", node |-> node,
                  out |-> get_in_degree_node(graph, node)]
    /\ UNCHANGED <<graph, sent, ncalls, calls, scorer, baseline, pending, classifier, other>>

GetOutDegree ==
    /\ Building
    /\ \E node \in QueryNode :
          res' = [op |-> "get_out_degree", node |-> node,
                  out |-> get_out_degree_node(graph, node)]
    /\ UNCHANGED <<graph, sent, ncalls, calls, scorer, baseline, pending, classifier, other>>

GetNeighbors ==
    /\ Building
    /\ \E node \in QueryNode, direction \in {"out", "in"} :
          res' = [op |-> "get_neighbors", node |-> node, direction |-> direction,
                  out |-> get_neighbors(graph, node, direction)]
    /\ UNCHANGED <<graph, sent, ncalls, calls, scorer, baseline, pending, classifier, other>>

\* get_edge_weight returns the weight or None and raises nothing
GetEdgeWeight ==
    /\ Building
    /\ \E sender \in QueryNode, recipient \in QueryNode :
          res' = [op |-> "get_edge_weight", sender |-> sender, recipient |-> recipient,
                  out |-> [kind |-> "Return",
                           value |-> get_edge_weight(graph, sender, recipient)]]
    /\ UNCHANGED <<graph, sent, ncalls, calls, scorer, baseline, pending, classifier, other>>

Diameter ==
    /\ Building
    /\ res' = [op |-> "diameter", out |-> diameter(graph)]
    /\ UNCHANGED <<graph, sent, ncalls, calls, scorer, baseline, pending, classifier, other>>

Radius ==
    /\ Building
    /\ res' = [op |-> "radius", out |-> radius(graph)]
    /\ UNCHANGED <<graph, sent, ncalls, calls, scorer, baseline, pending, classifier, other>>

AverageShortestPathLength ==
    /\ Building
    /\ res' = [op |-> "average_shortest_path_length",
               out |-> average_shortest_path_length(graph)]
    /\ UNCHANGED <<graph, sent, ncalls, calls, scorer, baseline, pending, classifier, other>>

AverageClusteringCoefficient ==
    /\ Building
    /\ res' = [op |-> "average_clustering_coefficient",
               out |-> average_clustering_coefficient(graph)]
    /\ UNCHANGED <<graph, sent, ncalls, calls, scorer, baseline, pending, classifier, other>>

\* calculate_betweenness_centrality(graph): nothing raised on unit weights
CalculateBetweennessCentrality ==
    /\ Building
    /\ res' = [op |-> "calculate_betweenness_centrality",
               out |-> Return(calculate_betweenness_centrality(graph, TRUE))]
    /\ UNCHANGED <<graph, sent, ncalls, calls, scorer, baseline, pending, classifier, other>>

GetAllMetrics ==
    /\ Building
    /\ res' = [op |-> "get_all_metrics", out |-> get_all_metrics(graph)]
    /\ UNCHANGED <<graph, sent, ncalls, calls, scorer, baseline, pending, classifier, other>>

GetWeaklyConnectedComponents ==
    /\ Building
    /\ res' = [op |-> "get_weakly_connected_components",
               components |-> get_weakly_connected_components(graph),
               number |-> number_of_weakly_connected_components(graph)]
    /\ UNCHANGED <<graph, sent, ncalls, calls, scorer, baseline, pending, classifier, other>>

GetDegreeRatio ==
    /\ Building
    /\ res' = [op |-> "get_degree_ratio", ratios |-> get_degree_ratio(graph)]
    /\ UNCHANGED <<graph, sent, ncalls, calls, scorer, baseline, pending, classifier, other>>

NetworkDensity ==
    /\ Building
    /\ res' = [op |-> "network_density", out |-> Return(network_density(graph))]
    /\ UNCHANGED <<graph, sent, ncalls, calls, scorer, baseline, pending, classifier, other>>

\* PathAnalyzer(graph).get_all_reachable_recipients(spam_source)
GetAllReachableRecipients ==
    /\ Building
    /\ \E spam_source \in QueryNode :
          \E recipients \in ListsOfSet(get_all_reachable_recipients(graph, spam_source)) :
              res' = [op |-> "get_all_reachable_recipients", source |-> spam_source,
                      out |-> Return(recipients)]
    /\ UNCHANGED <<graph, sent, ncalls, calls, scorer, baseline, pending, classifier, other>>

NextStructure ==
    \/ AddEmailDefault
    \/ GetAllReachableRecipients
    \/ NetworkDensity
    \/ GetDegreeRatio
    \/ GetWeaklyConnectedComponents
    \/ GreedyVertexColoring
    \/ GetInDegree
    \/ GetOutDegree
    \/ GetNeighbors
    \/ GetEdgeWeight
    \/ Diameter
    \/ Radius
    \/ AverageShortestPathLength
    \/ AverageClusteringCoefficient
    \/ CalculateBetweennessCentrality
    \/ GetAllMetrics

SpecStructure == Init /\ [][NextStructure]_vars

(***************************************************************************)
(* Batch ingestion as one call: a list of up to MaxRecords records is      *)
(* handed to add_emails_batch of a new graph                               *)
(***************************************************************************)
RecordLists == UNION {[1..n -> Emails] : n \in 0..MaxRecords}

InitBatch ==
    /\ graph = EmptyGraph
    /\ sent = EmptyMap
    /\ ncalls = EmptyMap
    /\ calls = 0
    /\ res = [op |-> "init"]
    /\ scorer = NoScorer
    /\ baseline = EmptyMap
    /\ other = NoGraph
    /\ classifier = NoClassifier
    /\ pending \in RecordLists

\* graph.add_emails_batch(emails)
AddWholeBatch ==
    /\ res.op = "init"
    /\ graph' = add_emails_batch(graph, pending)
    /\ LET h == Record([sum |-> sent, n |-> ncalls], pending)
       IN  sent' = h.sum /\ ncalls' = h.n
    /\ calls' = calls + Len(pending)
    /\ pending' = <<>>
    /\ res' = [op |-> "add_emails_batch", emails |-> pending, kind |-> "Return"]
    /\ UNCHANGED <<scorer, baseline, classifier, other>>

NextBatch == AddWholeBatch

SpecBatch == InitBatch /\ [][NextBatch]_vars

(***************************************************************************)
(* Two graph objects: the graph is built with add_email, copy() or         *)
(* get_subgraph(nodes) returns a second object, and add_email is then      *)
(* called on either of the two.                                            *)
(***************************************************************************)
\* the lists get_subgraph is called with, an absent address and repeats included
GivenNodes == UNION {[1..n -> QueryNode] : n \in 0..MaxGiven}

\* other = graph.copy()
Copy ==
    /\ Building
    /\ ~other.exists
    /\ other' = copy(graph)
    /\ res' = [op |-> "copy"]
    /\ UNCHANGED <<graph, sent, ncalls, calls, scorer, baseline, pending, classifier>>

\* other = graph.get_subgraph(nodes)
GetSubgraph ==
    /\ Building
    /\ ~other.exists
    /\ \E nodes \in GivenNodes :
        /\ other' = get_subgraph(graph, nodes)
        /\ res' = [op |-> "get_subgraph", nodes |-> nodes]
    /\ UNCHANGED <<graph, sent, ncalls, calls, scorer, baseline, pending, classifier>>

\* graph.add_email(sender, recipient) once the second object exists
AddEmailToOriginal ==
    /\ other.exists
    /\ calls < MaxCalls
    /\ calls' = calls + 1
    /\ \E sender \in Node, recipient \in Node :
        /\ graph' = add_email(graph, sender, recipient, 1)
        /\ other' = IF has_edge(graph, sender, recipient)
                    THEN [other EXCEPT !.graph =
                             SeenThrough(@, other.shared, sender, recipient,
                                         graph.weight[<<sender, recipient>>] + 1)]
                    ELSE other
        /\ LET h == Record([sum |-> sent, n |-> ncalls], <<<<sender, recipient, 1>>>>)
           IN  sent' = h.sum /\ ncalls' = h.n
        /\ res' = [op |-> "graph.add_email", weight |-> 1, kind |-> "Return"]
    /\ UNCHANGED <<scorer, baseline, pending, classifier>>

\* other.add_email(sender, recipient)
AddEmailToOther ==
    /\ other.exists
    /\ calls < MaxCalls
    /\ calls' = calls + 1
    /\ \E sender \in Node, recipient \in Node :
        /\ other' = [other EXCEPT !.graph = add_email(@, sender, recipient, 1)]
        /\ graph' = IF has_edge(other.graph, sender, recipient)
                    THEN SeenThrough(graph, other.shared, sender, recipient,
                                     other.graph.weight[<<sender, recipient>>] + 1)
                    ELSE graph
        /\ res' = [op |-> "other.add_email", weight |-> 1, kind |-> "Return"]
    /\ UNCHANGED <<sent, ncalls, scorer, baseline, pending, classifier>>

NextCopy ==
    \/ AddEmailDefault
    \/ Copy
    \/ GetSubgraph
    \/ AddEmailToOriginal
    \/ AddEmailToOther

SpecCopy == Init /\ [][NextCopy]_vars

(***************************************************************************)
(* The classifier on its own: a SpamClassifier with two ordered thresholds *)
(* (suspicious < spam) is asked about single scores and about score maps   *)
(***************************************************************************)
ThresholdValues == {20, SUSPICIOUS_SCORE_THRESHOLD, SPAM_SCORE_THRESHOLD}

\* scores below, at, between and above the thresholds
ScoreValues ==
    {RInt(0), RInt(20), Rat(79, 2), RInt(40), Rat(159, 2), RInt(80), RInt(100)}

ScoreMaps == UNION {[S -> ScoreValues] : S \in SUBSET Node}

InitClassifier ==
    /\ graph = EmptyGraph
    /\ sent = EmptyMap
    /\ ncalls = EmptyMap
    /\ calls = 0
    /\ res = [op |-> "init"]
    /\ scorer = NoScorer
    /\ baseline = EmptyMap
    /\ other = NoGraph
    /\ pending = <<>>
    /\ \E spam_threshold \in ThresholdValues, suspicious_threshold \in ThresholdValues :
          /\ suspicious_threshold < spam_threshold
          /\ classifier = SpamClassifier(spam_threshold, suspicious_threshold)

ClassifyNode ==
    /\ \E score \in ScoreValues :
          res' = [op |-> "classify_node", score |-> score,
                  classification |-> classify_node(classifier, score)]
    /\ UNCHANGED <<graph, sent, ncalls, calls, scorer, baseline, pending, classifier, other>>

ClassifyAllNodes ==
    /\ \E spam_scores \in ScoreMaps :
          res' = [op |-> "classify_all_nodes", scores |-> spam_scores,
                  classifications |-> classify_all_nodes(classifier, spam_scores)]
    /\ UNCHANGED <<graph, sent, ncalls, calls, scorer, baseline, pending, classifier, other>>

GetClassificationSummary ==
    /\ \E spam_scores \in ScoreMaps :
          res' = [op |-> "get_classification_summary", scores |-> spam_scores,
                  summary |-> get_classification_summary(classifier, spam_scores)]
    /\ UNCHANGED <<graph, sent, ncalls, calls, scorer, baseline, pending, classifier, other>>

NextClassifier ==
    \/ ClassifyNode
    \/ ClassifyAllNodes
    \/ GetClassificationSummary

SpecClassifier == InitClassifier /\ [][NextClassifier]_vars

(***************************************************************************)
(* Properties of the graph and of the shortest-path queries                *)
(***************************************************************************)
IsQuery(op) == res.op = op

\* p is a directed path of g from s to t
IsPathOf(g, p, s, t) ==
    /\ Len(p) >= 1
    /\ p[1] = s /\ p[Len(p)] = t
    /\ \A i \in 1..Len(p) : HasNode(g, p[i])
    /\ \A i \in 1..(Len(p) - 1) : has_edge(g, p[i], p[i + 1])

\* every simple directed path of g from s to t
SimplePaths(g, s, t) ==
    {p \in UNION {[1..n -> DOMAIN g.succ] : n \in 1..Len(g.nodes)} :
        /\ IsPathOf(g, p, s, t)
        /\ \A i, j \in 1..Len(p) : p[i] = p[j] => i = j}

\* the largest edge weight of the whole graph
GraphMaxWeight(g) ==
    CHOOSE m \in {g.weight[e] : e \in DOMAIN g.weight} :
        \A e \in DOMAIN g.weight : g.weight[e] <= m

\* the transformed cost of a path: maxWeight + 1 - weight on every edge
RECURSIVE TransformedCost(_, _, _)
TransformedCost(g, mw, p) ==
    IF Len(p) < 2 THEN 0
    ELSE (mw + 1 - g.weight[<<p[1], p[2]>>]) + TransformedCost(g, mw, Tail(p))

AllWeightsAtLeastOne(g) == \A e \in DOMAIN g.weight : g.weight[e] >= 1

\* C1: in inverse mode, whenever the target is reachable from the source, the
\* query returns a path from source to target whose transformed cost
\* (maxWeight + 1 - weight, maxWeight over the whole graph) is minimal among
\* all paths, and reports the sum of the original weights along that path.
C1_InversePathMinimal ==
    (/\ IsQuery("dijkstra_shortest_path")
     /\ res.weight_type = "inverse"
     /\ HasNode(graph, res.source) /\ HasNode(graph, res.target)
     /\ has_path(graph, res.source, res.target))
    => /\ res.out.kind = "Path"
       /\ IsPathOf(graph, res.out.path, res.source, res.target)
       /\ res.out.distance = PathWeight(graph, res.out.path)
       /\ res.source # res.target =>
            \A p \in SimplePaths(graph, res.source, res.target) :
                TransformedCost(graph, GraphMaxWeight(graph), res.out.path)
                    <= TransformedCost(graph, GraphMaxWeight(graph), p)

\* C1 restricted to the graphs of the data model (every weight >= 1); this
\* restriction is what the code satisfies.
C1_OnValidWeights == AllWeightsAtLeastOne(graph) => C1_InversePathMinimal

\* the spec's example: A->B 5-like heavy edges win over the light direct edge
C1_ExampleReached ==
    /\ IsQuery("dijkstra_shortest_path") /\ res.weight_type = "inverse"
    /\ AllWeightsAtLeastOne(graph)
    /\ res.out.kind = "Path" /\ Len(res.out.path) = 3
    /\ has_edge(graph, res.source, res.target)
    /\ res.out.distance > graph.weight[<<res.source, res.target>>]

\* C6: at most one edge per ordered pair, and its weight is the sum of the
\* weights of all add_email calls made for that pair.
C6_WeightsAccumulate ==
    /\ \A u \in DOMAIN graph.succ :
          \A i, j \in 1..Len(graph.succ[u]) :
              graph.succ[u][i] = graph.succ[u][j] => i = j
    /\ DOMAIN graph.weight = Range(get_edges(graph))
    /\ Len(get_edges(graph)) = Cardinality(DOMAIN graph.weight)
    /\ DOMAIN graph.weight = DOMAIN sent
    /\ \A p \in DOMAIN sent : graph.weight[p] = sent[p]

\* a pair was sent twice or more and its weight is not that of the last call
C6_RepeatedPair ==
    /\ res.op \in {"add_email", "add_emails_batch"}
    /\ \E p \in DOMAIN ncalls :
          ncalls[p] >= 2 /\ graph.weight[p] = sent[p] /\ sent[p] # res.weight

\* C7: add_email with a negative weight raises and leaves the graph
\* unchanged, so every stored weight is an integer >= 1.
C7_NegativeWeightRejected ==
    /\ (res.op = "add_email" /\ res.weight < 0) => res.kind = "Raise"
    /\ AllWeightsAtLeastOne(graph)

\* C8: the query never raises; it returns (None, None) when an endpoint is
\* absent or the target is unreachable, and otherwise a path from source to
\* target along edges of the graph.
C8_NoPathOrPath ==
    IsQuery("dijkstra_shortest_path") =>
        /\ res.out.kind # "Raise"
        /\ IF /\ HasNode(graph, res.source) /\ HasNode(graph, res.target)
              /\ has_path(graph, res.source, res.target)
           THEN /\ res.out.kind = "Path"
                /\ IsPathOf(graph, res.out.path, res.source, res.target)
           ELSE res.out = NoPath

\* C9: a dijkstra_shortest_path call, in either mode, leaves the graph as it
\* was: same nodes, same edges, same weights.
C9_GraphUnchanged ==
    [][res'.op = "dijkstra_shortest_path" => graph' = graph]_vars

\* an inverse-mode query that found a path of two or more hops on a graph
\* whose transformed weights differ from the stored ones
C9_InverseQueryDone ==
    /\ IsQuery("dijkstra_shortest_path") /\ res.weight_type = "inverse"
    /\ res.out.kind = "Path" /\ Len(res.out.path) >= 3
    /\ InvertWeights(graph, max_weight(graph)) # graph

\* C10: on a graph with valid weights, every distance dijkstra_from_source
\* reports equals the distance the single-pair query reports for the same
\* source and target when called the same way (default mode, 'inverse').
C10_FromSourceAgrees ==
    (/\ IsQuery("dijkstra_from_source")
     /\ AllWeightsAtLeastOne(graph)
     /\ res.out.kind = "Return")
    => \A t \in DOMAIN res.out.lengths :
          LET r == dijkstra_shortest_path(graph, res.source, t, "inverse").out
          IN  r.kind = "Path" /\ r.distance = res.out.lengths[t]

(***************************************************************************)
(* Properties of the undirected projection and of the scorer               *)
(***************************************************************************)
\* C4: (on graphs with valid weights) whatever add_email calls follow the construction of the scorer,
\* calculate_all_scores returns what it returned right after construction:
\* the same nodes with the same scores.
C4_SnapshotScores ==
    (IsQuery("calculate_all_scores") /\ AllWeightsAtLeastOne(graph))
    => res.scores = baseline

\* C5: (on graphs with valid weights) the projection has one edge per unordered pair joined by a directed
\* edge, and where both directions exist its weight is the sum of the two
\* directed weights (so it cannot depend on the insertion order).
C5_ProjectionSumsWeights ==
    (IsQuery("compute_minimum_spanning_tree") /\ AllWeightsAtLeastOne(graph)) =>
        LET U == res.undirected
        IN  /\ DOMAIN U.weight =
                  {e \in (DOMAIN U.adj) \X (DOMAIN U.adj) :
                      has_edge(graph, e[1], e[2]) \/ has_edge(graph, e[2], e[1])}
            /\ \A e \in DOMAIN U.weight :
                  /\ U.weight[e] = U.weight[<<e[2], e[1]>>]
                  /\ (e[1] # e[2] /\ has_edge(graph, e[1], e[2])
                                  /\ has_edge(graph, e[2], e[1]))
                     => U.weight[e] = graph.weight[e] + graph.weight[<<e[2], e[1]>>]
                  /\ ~has_edge(graph, e[2], e[1]) => U.weight[e] = graph.weight[e]

\* C2: in the ring scenario the star-topology detection on the MST flags all
\* three senders.
C2_RingSendersFlagged ==
    IsQuery("detect_star_topology") => RingSenders \subseteq Range(res.star_nodes)

\* C3: in the ring scenario every sender's combined score reaches the spam
\* threshold, so every sender is classified 'spam'.
C3_RingSendersSpam ==
    IsQuery("classify_all_nodes") =>
        \A sender \in RingSenders :
            /\ RLeq(RInt(SPAM_SCORE_THRESHOLD), res.scores[sender])
            /\ res.classifications[sender] = "spam"

(***************************************************************************)
(* Properties of the spanning tree                                         *)
(***************************************************************************)
\* u and v are joined by an edge of g in either direction
Linked(g, u, v) == has_edge(g, u, v) \/ has_edge(g, v, u)

\* the nodes connected to a node of S in the undirected projection of g
RECURSIVE Comp(_, _)
Comp(g, S) ==
    LET T == S \cup {v \in Range(g.nodes) : \E u \in S : Linked(g, u, v)}
    IN  IF T = S THEN S ELSE Comp(g, T)

Components(g) == {Comp(g, {n}) : n \in Range(g.nodes)}

\* the undirected edges of g that are no self-loops
TreeEdges(g) == {{e[1], e[2]} : e \in {d \in DOMAIN g.weight : d[1] # d[2]}}

\* C11: (on graphs with valid weights) the result is a spanning forest of the
\* projection: it has all N nodes, N - k tree edges for k components, no
\* self-loop and no cycle, and it connects two nodes iff the projection does.
C11_SpanningForest ==
    (IsQuery("compute_minimum_spanning_tree") /\ AllWeightsAtLeastOne(graph)) =>
        LET mst == res.mst
            N == Len(graph.nodes)
            k == Cardinality(Components(graph))
        IN  /\ Range(mst.nodes) = Range(graph.nodes)
            /\ Cardinality(TreeEdges(mst)) = N - k
            /\ \A n \in Range(mst.nodes) : ~has_edge(mst, n, n)
            /\ Cardinality(TreeEdges(mst))
                   = Len(mst.nodes) - Cardinality(Components(mst))
            /\ \A u, v \in Range(graph.nodes) :
                   (v \in Comp(mst, {u})) <=> (v \in Comp(graph, {u}))

\* C12: the returned graph is symmetric, and each of its edges carries the
\* weight of the projection edge that Kruskal accepted.
C12_MstSymmetric ==
    IsQuery("compute_minimum_spanning_tree") =>
        \A e \in DOMAIN res.mst.weight :
            /\ has_edge(res.mst, e[2], e[1])
            /\ res.mst.weight[<<e[2], e[1]>>] = res.mst.weight[e]
            /\ e \in DOMAIN res.undirected.weight
            /\ res.mst.weight[e] = res.undirected.weight[e]

\* a tree of two edges was returned for a graph that has some pair of nodes
\* joined in both directions
C12_TwoEdgeTree ==
    /\ IsQuery("compute_minimum_spanning_tree")
    /\ Cardinality(TreeEdges(res.mst)) = 2
    /\ \E u, v \in Range(graph.nodes) :
          u # v /\ has_edge(graph, u, v) /\ has_edge(graph, v, u)

\* the sum of the weights of the undirected edges in E, each counted once
RECURSIVE TreeWeight(_, _)
TreeWeight(g, E) ==
    IF E = {} THEN 0
    ELSE LET e == CHOOSE x \in E : TRUE
             u == CHOOSE n \in e : TRUE
             v == IF Cardinality(e) = 1 THEN u ELSE CHOOSE n \in e : n # u
         IN  g.weight[<<u, v>>] + TreeWeight(g, E \ {e})

\* C13: (on graphs with valid weights) the statistics report the sum of the
\* weights of the forest's edges, each accepted edge counted once, the
\* number of those edges, and their quotient (0 for an edgeless tree).
C13_MstStatistics ==
    (IsQuery("get_mst_metrics") /\ AllWeightsAtLeastOne(graph)) =>
        LET E == TreeEdges(res.mst)
            total == TreeWeight(res.mst, E)
        IN  /\ res.stats.total_weight = total
            /\ res.stats.num_edges = Cardinality(E)
            /\ IF E = {} THEN res.stats.average_edge_weight = <<0, 1>>
               ELSE res.stats.average_edge_weight[1] * Cardinality(E)
                       = total * res.stats.average_edge_weight[2]

(***************************************************************************)
(* Properties of the scores                                                *)
(***************************************************************************)
Clamp100(x) == RMax(RInt(0), RMin(RInt(100), x))

\* C14: the degree score is 0 below the minimum out-degree; above it, it is
\* min(100, 35 + 5 * outDegree) for a node with in-degree 0, and otherwise
\* log(ratio + 1) rescaled from [0, 3] to [0, 100] and clamped.
C14_DegreeScore ==
    IsQuery("get_score_components") =>
        LET out_deg == get_out_degree(graph)[res.node]
            in_deg == get_in_degree(graph)[res.node]
            expected ==
                IF out_deg < MIN_SPAM_OUT_DEGREE THEN RInt(0)
                ELSE IF in_deg = 0
                THEN RMin(RInt(100), RInt(35 + 5 * out_deg))
                ELSE LET ratio == Rat(out_deg, in_deg)
                         log_ratio == Rat(LnMilli[ratio[1] + ratio[2]]
                                            - LnMilli[ratio[2]], 1000)
                     IN  Clamp100(normalize_score(log_ratio, 0, 3, 0, 100))
        IN  res.components.degree_score = expected

InRange100(x) == RLeq(RInt(0), x) /\ RLeq(x, RInt(100))

C16_ClassifyNode ==
    IsQuery("classify_node") =>
        LET spam == RInt(classifier.spam_threshold)
            suspicious == RInt(classifier.suspicious_threshold)
        IN  /\ res.classification \in {"spam", "suspicious", "legitimate"}
            /\ res.classification = "spam" <=> RLeq(spam, res.score)
            /\ res.classification = "suspicious" <=>
                   RLeq(suspicious, res.score) /\ RLess(res.score, spam)
            /\ res.score = spam => res.classification = "spam"
            /\ res.score = suspicious => res.classification = "suspicious"

\* a score of exactly 80 was classified with the spam threshold 80
C16_ScoreAtSpamThreshold ==
    /\ IsQuery("classify_node")
    /\ classifier.spam_threshold = SPAM_SCORE_THRESHOLD
    /\ res.score = RInt(SPAM_SCORE_THRESHOLD)
    /\ res.classification = "spam"

\* the number of nodes classify_all_nodes assigns to class cls
ClassCount(self, spam_scores, cls) ==
    LET classifications == classify_all_nodes(self, spam_scores)
    IN  Cardinality({node \in DOMAIN classifications : classifications[node] = cls})

\* C17: the summary counts every node in exactly one class: the three counts
\* add up to total_nodes, each count is the number of nodes classify_all_nodes
\* puts in that class, and the percentages are 0 for the empty map.
C17_SummaryPartitions ==
    IsQuery("get_classification_summary") =>
        LET summary == res.summary
        IN  /\ summary.total_nodes = Cardinality(DOMAIN res.scores)
            /\ summary.spam_count + summary.suspicious_count
                   + summary.legitimate_count = summary.total_nodes
            /\ summary.spam_count = ClassCount(classifier, res.scores, "spam")
            /\ summary.suspicious_count = ClassCount(classifier, res.scores, "suspicious")
            /\ summary.legitimate_count = ClassCount(classifier, res.scores, "legitimate")
            /\ DOMAIN res.scores = {} =>
                   /\ summary.spam_percentage = RInt(0)
                   /\ summary.suspicious_percentage = RInt(0)
                   /\ summary.legitimate_percentage = RInt(0)

\* a summary of three nodes, one in each class
C17_OneOfEachClass ==
    /\ IsQuery("get_classification_summary")
    /\ res.summary.total_nodes = Cardinality(Node)
    /\ res.summary.spam_count = 1
    /\ res.summary.suspicious_count = 1
    /\ res.summary.legitimate_count = 1


(***************************************************************************)
(* Properties of the coloring                                              *)
(***************************************************************************)
\* C18: for every graph, self-loops included, validate_coloring accepts the
\* greedy coloring: every node has a color and the two ends of an edge of the
\* undirected projection never have the same color.
C18_GreedyColoringValid ==
    IsQuery("greedy_vertex_coloring") =>
        /\ res.valid
        /\ DOMAIN res.coloring = Range(get_nodes(graph))
        /\ \A e \in Range(und_edges(to_undirected(graph))) :
               res.coloring[e[1]] # res.coloring[e[2]]


(***************************************************************************)
(* Properties of the lookups                                               *)
(***************************************************************************)
\* C19: a lookup about a node that is not in the graph never raises:
\* get_in_degree, get_out_degree, get_neighbors and get_edge_weight return a
\* sentinel (None, 0 or the empty list).
C19_AbsentNodeSentinel ==
    /\ (res.op \in {"get_in_degree", "get_out_degree", "get_neighbors"}
           /\ ~HasNode(graph, res.node)) =>
          /\ res.out.kind = "Return"
          /\ res.out.value \in {"None", 0, <<>>}
    /\ (IsQuery("get_edge_weight")
           /\ (~HasNode(graph, res.sender) \/ ~HasNode(graph, res.recipient))) =>
          /\ res.out.kind = "Return"
          /\ res.out.value = "None"


(***************************************************************************)
(* Properties of the network metrics                                       *)
(***************************************************************************)
\* the empty graph, the single-node graph and the graphs whose only edges
\* are self-loops
Degenerate(g) == \A e \in DOMAIN g.weight : e[1] = e[2]

\* C20: on a degenerate graph no metric raises: diameter, radius, the average
\* path length and the average clustering are 0, every betweenness is 0 and
\* get_all_metrics returns its dictionary.
C20_DegenerateMetrics ==
    Degenerate(graph) =>
        /\ res.op \in {"diameter", "radius", "average_shortest_path_length",
                        "average_clustering_coefficient",
                        "calculate_betweenness_centrality", "get_all_metrics"} =>
              res.out.kind = "Return"
        /\ res.op \in {"diameter", "radius"} => res.out.value = 0
        /\ res.op \in {"average_shortest_path_length",
                        "average_clustering_coefficient"} => res.out.value = RInt(0)
        /\ IsQuery("calculate_betweenness_centrality") =>
              \A n \in DOMAIN res.out.value : res.out.value[n] = RInt(0)


\* the nodes within k steps of S when the direction of the edges is ignored
RECURSIVE Ball(_, _, _)
Ball(g, S, k) ==
    IF k = 0 THEN S
    ELSE Ball(g, S \cup {v \in Range(g.nodes) : \E u \in S : Linked(g, u, v)}, k - 1)

\* the number of edges of a shortest undirected path between two connected nodes
HopDist(g, u, v) ==
    CHOOSE k \in 0..Len(g.nodes) :
        /\ v \in Ball(g, {u}, k)
        /\ \A j \in 0..(k - 1) : v \notin Ball(g, {u}, j)

Eccentricity(g, C, u) ==
    CHOOSE d \in {HopDist(g, u, v) : v \in C} :
        \A v \in C : HopDist(g, u, v) <= d

\* diameter, radius and mean distance of the component C
ComponentDiameter(g, C) ==
    CHOOSE d \in {Eccentricity(g, C, u) : u \in C} :
        \A u \in C : Eccentricity(g, C, u) <= d

ComponentRadius(g, C) ==
    CHOOSE d \in {Eccentricity(g, C, u) : u \in C} :
        \A u \in C : d <= Eccentricity(g, C, u)

RECURSIVE PairSum(_, _)
PairSum(g, pairs) ==
    IF pairs = {} THEN 0
    ELSE LET p == CHOOSE q \in pairs : TRUE
         IN  HopDist(g, p[1], p[2]) + PairSum(g, pairs \ {p})

ComponentMeanDistance(g, C) ==
    IF Cardinality(C) = 1 THEN RInt(0)
    ELSE Rat(PairSum(g, {p \in C \X C : p[1] # p[2]}),
             Cardinality(C) * (Cardinality(C) - 1))

LargestComponents(g) ==
    {C \in Components(g) : \A D \in Components(g) : Cardinality(D) <= Cardinality(C)}

\* C21: diameter, radius and average path length are those of one largest
\* component of the projection (of the whole projection when it is connected,
\* 0 for a component of one node), the same component for all three, and
\* radius <= diameter in every case.
C21_LargestComponentMetrics ==
    IsQuery("get_all_metrics") =>
        /\ res.out.kind = "Return"
        /\ res.out.value.radius <= res.out.value.diameter
        /\ \E C \in LargestComponents(graph) :
              /\ res.out.value.diameter = ComponentDiameter(graph, C)
              /\ res.out.value.radius = ComponentRadius(graph, C)
              /\ res.out.value.average_path_length = ComponentMeanDistance(graph, C)


(***************************************************************************)
(* Properties of the components                                            *)
(***************************************************************************)
\* C22: the weakly connected components partition the node set: their union
\* is the node set, they are non-empty and pairwise disjoint, two nodes share
\* a component iff an undirected path joins them, and
\* number_of_weakly_connected_components is the length of the list.
C22_ComponentsPartition ==
    IsQuery("get_weakly_connected_components") =>
        LET cs == res.components
        IN  /\ UNION Range(cs) = Range(graph.nodes)
            /\ \A i \in DOMAIN cs : cs[i] # {}
            /\ \A i, j \in DOMAIN cs : i # j => cs[i] \cap cs[j] = {}
            /\ \A u, v \in Range(graph.nodes) :
                   (\E i \in DOMAIN cs : u \in cs[i] /\ v \in cs[i])
                       <=> v \in Comp(graph, {u})
            /\ res.number = Len(cs)

\* two components, one of them of two nodes whose edge leads to the node
\* that comes first
C22_TwoComponents ==
    /\ IsQuery("get_weakly_connected_components")
    /\ Len(res.components) = 2
    /\ \E i \in 1..Len(graph.nodes), j \in 1..Len(graph.nodes) :
          i < j /\ has_edge(graph, graph.nodes[j], graph.nodes[i])
               /\ ~has_edge(graph, graph.nodes[i], graph.nodes[j])


(***************************************************************************)
(* Properties of the degree ratio                                          *)
(***************************************************************************)
\* the distinct successors and predecessors of a node
Successors(g, n) == {v \in Range(g.nodes) : has_edge(g, n, v)}
Predecessors(g, n) == {u \in Range(g.nodes) : has_edge(g, u, n)}

UndSimplePaths(U, s, t) ==
    {p \in UNION {[1..n -> DOMAIN U.adj] : n \in 2..Len(U.nodes)} :
        /\ p[1] = s /\ p[Len(p)] = t
        /\ \A i \in 1..(Len(p) - 1) : <<p[i], p[i + 1]>> \in DOMAIN U.weight
        /\ \A i, j \in 1..Len(p) : p[i] = p[j] => i = j}

\* those of minimum weight
MinWeightPaths(U, s, t) ==
    {p \in UndSimplePaths(U, s, t) :
        \A q \in UndSimplePaths(U, s, t) : PathWeight(U, p) <= PathWeight(U, q)}

\* the fraction of the minimum-weight s-t paths through v; 0 without a path
PathFraction(U, s, t, v) ==
    IF MinWeightPaths(U, s, t) = {} THEN RInt(0)
    ELSE Rat(Cardinality({p \in MinWeightPaths(U, s, t) : v \in Range(p)}),
             Cardinality(MinWeightPaths(U, s, t)))

RECURSIVE FractionSum(_, _, _)
FractionSum(U, pairs, v) ==
    IF pairs = {} THEN RInt(0)
    ELSE LET pr == CHOOSE q \in pairs : TRUE
             s == CHOOSE x \in pr : TRUE
             t == CHOOSE x \in pr : x # s
         IN  RAdd(PathFraction(U, s, t, v), FractionSum(U, pairs \ {pr}, v))

\* the unordered pairs of distinct nodes other than v
PairsWithout(U, v) ==
    {{s, t} : s, t \in DOMAIN U.adj \ {v}} \ {{s} : s \in DOMAIN U.adj}

C25_DensityRange ==
    IsQuery("network_density") =>
        LET N == Len(graph.nodes)
            edges == Cardinality(DOMAIN graph.weight)
        IN  /\ res.out.kind = "Return"
            /\ N >= 2 => res.out.value = Rat(edges, N * (N - 1))
            /\ N <= 1 => res.out.value = RInt(0)
            /\ RLeq(RInt(0), res.out.value)
            /\ RLeq(res.out.value, RInt(1))


(***************************************************************************)
(* Properties of the reachability sweep                                    *)
(***************************************************************************)
\* C26: get_all_reachable_recipients returns, each once, exactly the nodes
\* other than the source that a directed path from the source reaches, on
\* cyclic graphs too; the empty list for a source that is not in the graph;
\* never the source itself.
C26_ReachableRecipients ==
    IsQuery("get_all_reachable_recipients") =>
        LET recipients == res.out.value
        IN  /\ res.out.kind = "Return"
            /\ \A i, j \in DOMAIN recipients : recipients[i] = recipients[j] => i = j
            /\ res.source \notin Range(recipients)
            /\ ~HasNode(graph, res.source) => recipients = <<>>
            /\ HasNode(graph, res.source) =>
                   Range(recipients) =
                       {t \in Range(graph.nodes) \ {res.source} :
                           SimplePaths(graph, res.source, t) # {}}

\* the source lies on a cycle through the two other nodes
C26_SourceOnCycle ==
    /\ IsQuery("get_all_reachable_recipients")
    /\ Len(res.out.value) = 2
    /\ \E u, v \in Node :
          /\ has_edge(graph, res.source, u) /\ has_edge(graph, u, v)
          /\ has_edge(graph, v, res.source)
          /\ Cardinality({res.source, u, v}) = Cardinality(Node)


C28_ModesAgree ==
    (IsQuery("dijkstra_shortest_path") /\ res.weight_type = "inverse") =>
        LET direct == dijkstra_shortest_path(graph, res.source, res.target, "direct").out
        IN  /\ res.out.kind = direct.kind
            /\ res.out.kind \in {"Path", "NoPath"}
            /\ res.out.kind = "Path" => res.out.distance >= direct.distance


(***************************************************************************)
(* Properties of the construction                                          *)
(***************************************************************************)
\* the lists that hold the same records as emails, in every order
PermutationsOf(emails) ==
    {[i \in DOMAIN emails |-> emails[f[i]]] :
        f \in {h \in [DOMAIN emails -> DOMAIN emails] :
                  \A i, j \in DOMAIN emails : h[i] = h[j] => i = j}}

\* the same node set, the same edge set, the same weight on every edge
SameGraph(g, h) ==
    /\ Range(g.nodes) = Range(h.nodes)
    /\ DOMAIN g.weight = DOMAIN h.weight
    /\ \A e \in DOMAIN g.weight : g.weight[e] = h.weight[e]

\* C29: the graph add_emails_batch builds does not depend on the order of the
\* records: every permutation of the list gives the same nodes, the same
\* edges and the same weight on every edge.
C29_OrderIndependent ==
    IsQuery("add_emails_batch") =>
        \A permuted \in PermutationsOf(res.emails) :
            SameGraph(graph, add_emails_batch(EmptyGraph, permuted))

\* a list with the same pair twice, with different weights, and a third record
C29_RepeatedPairInList ==
    /\ IsQuery("add_emails_batch")
    /\ Len(res.emails) = MaxRecords
    /\ \E i, j \in DOMAIN res.emails :
          /\ i < j
          /\ res.emails[i][1] = res.emails[j][1]
          /\ res.emails[i][2] = res.emails[j][2]
          /\ res.emails[i][3] # res.emails[j][3]
    /\ Cardinality(DOMAIN graph.weight) = 2

\* sub has exactly the nodes of g that are in keep, each once, and exactly the
\* edges of g between two of them, with the weights they have in g
InducedBy(sub, g, keep) ==
    /\ Range(sub.nodes) = keep \cap Range(g.nodes)
    /\ Len(sub.nodes) = Cardinality(Range(sub.nodes))
    /\ DOMAIN sub.succ = Range(sub.nodes)
    /\ DOMAIN sub.weight = {e \in DOMAIN g.weight : e[1] \in keep /\ e[2] \in keep}
    /\ \A e \in DOMAIN sub.weight :
        /\ sub.weight[e] = g.weight[e]
        /\ e[2] \in Range(sub.succ[e[1]])
        /\ e[1] \in Range(sub.pred[e[2]])
    /\ \A n \in DOMAIN sub.succ :
        /\ \A v \in Range(sub.succ[n]) : <<n, v>> \in DOMAIN sub.weight
        /\ \A u \in Range(sub.pred[n]) : <<u, n>> \in DOMAIN sub.weight

\* C30: get_subgraph(nodes) returns a graph with exactly the given nodes that
\* exist and exactly the edges between them, with their weights; copy() returns
\* a graph with all nodes, edges and weights; an add_email on the returned
\* object leaves the nodes, edges and weights of the original unchanged, and an
\* add_email on the original leaves the returned object unchanged.
C30_IndependentObjects ==
    [][/\ res'.op = "get_subgraph" =>
            InducedBy(other'.graph, graph, Range(res'.nodes))
       /\ res'.op = "copy" =>
            InducedBy(other'.graph, graph, Range(graph.nodes))
       /\ res'.op = "other.add_email" => graph' = graph
       /\ res'.op = "graph.add_email" => other'.graph = other.graph]_vars

\* add_email was called on a second object that lacks a node of the original,
\* for an edge both graphs have: the two weights now differ
C30_SubgraphEdgeDiverged ==
    /\ other.exists
    /\ res.op = "other.add_email"
    /\ Range(graph.nodes) \ Range(other.graph.nodes) # {}
    /\ \E e \in DOMAIN graph.weight \cap DOMAIN other.graph.weight :
        other.graph.weight[e] = graph.weight[e] + 1

====
